---- MODULE Spec2Model ----
(***************************************************************************)
(* A model of the simple-editor shell: the action registry (actions.py),   *)
(* the tab manager and its tabs (tabs.py) and the save-state tracking of a *)
(* FileTab (tabs.py).                                                      *)
(*                                                                         *)
(* The model describes the running application: _run.init() has been       *)
(* called, the main window is mapped and the Tk event loop is running.     *)
(* TabManager subclasses ttk.Notebook, so the notebook's own behaviour is  *)
(* part of the program's behaviour; it is modelled by the Nb* operators:   *)
(*   - the first tab added to a notebook without selection is selected;    *)
(*   - forgetting the selected tab selects the next tab, else the          *)
(*     previous one, else nothing;                                         *)
(*   - every change of the selected tab posts <<NotebookTabChanged>> at    *)
(*     the tail of the event queue: the bound handlers run when the event  *)
(*     loop (or an explicit update()) reaches it, not inside the call;     *)
(*   - event_generate() of the other virtual events runs the handlers      *)
(*     before it returns.                                                  *)
(***************************************************************************)
EXTENDS Integers, Sequences, FiniteSets, TLC

\* Bounds of the model: the tabs open at once, the <<NotebookTabChanged>>
\* events queued at once, the characters in a text widget.
MaxTabs == 2
MaxPending == 2
MaxLen == 2

\* The longest of the short texts chunked, and the largest chunk size tried.
MaxText == 3
MaxN == 3

\* Python's None and a present value, for optional attributes and arguments.
None == <<>>
Some(x) == <<x>>

VARIABLES
    tabs,         \* TabManager: the notebook's tabs in display order
    current,      \* TabManager: position in tabs of the selected tab, 0 = none
    pending,      \* number of <<NotebookTabChanged>> events queued for delivery
    _actions,     \* actions._actions: path -> _Action
    nbBindings,   \* enable_or_disable closures bound to <<NotebookTabChanged>>
    keyBindings,  \* bind_callback closures given to bind_all, in bind order
    explicit,     \* paths whose enabled flag a caller of the registry has flipped
    emitted,      \* notifications emitted by the last operation, in order
    last,         \* the last operation: its name, arguments and result
    textwidget,   \* FileTab: the characters of the text widget
    _save_hash,   \* FileTab: the digest taken by the last mark_saved()
    encoding,     \* settings: config['encoding'] of the section General
    savedText,    \* the characters the text widget held at the last mark_saved()
    unsaved,      \* the open FileTabs whose is_saved() is false, by identity
    owed,         \* the tabs that became selected and got no on_focus() since
    files,        \* the file system: file name -> the bytes of the file
    _path,        \* FileTab: the path of the tab whose text textwidget is
    _loaded_json, \* settings: section name -> key -> value, as loaded and assigned
    _var_cache,   \* settings: key -> the content of the tkinter variable of get_var
    errorvar,     \* settings: key -> whether the field shows the error triangle
    fixedfont,    \* the size of TkFixedFont
    settings_json, \* the record in settings.json on disk
    content,      \* tab id -> the characters of the text widget of the FileTab
    _tokens,      \* tab id -> FileTab._tokens, for the tabs whose list is not empty
    tokenizedFrom, \* tab id -> the content that the tokens of the tab were computed from
    _title,       \* FileTab: Tab._title, the parts of the title of the tab
    _status       \* FileTab: Tab._status, what the status bar says of the file

nbVars == <<tabs, current, pending>>
regVars == <<_actions, nbBindings, keyBindings, explicit>>
fileVars == <<textwidget, _save_hash, encoding, savedText>>
diskVars == <<files, _path>>
cfgVars == <<_loaded_json, _var_cache, errorvar, fixedfont, settings_json>>
tokVars == <<content, _tokens, tokenizedFrom>>
shownVars == <<_title, _status>>
vars == <<nbVars, regVars, fileVars, diskVars, cfgVars, tokVars, shownVars, unsaved, owed, emitted, last>>

(***************************************************************************)
(* Sequences.                                                              *)
(***************************************************************************)
InsertAt(s, i, x) == SubSeq(s, 1, i - 1) \o <<x>> \o SubSeq(s, i, Len(s))
RemoveAt(s, i) == SubSeq(s, 1, i - 1) \o SubSeq(s, i + 1, Len(s))
Range(s) == {s[i] : i \in DOMAIN s}

(***************************************************************************)
(* Tabs.  A tab is a widget object: id is its identity, type its class,    *)
(* path the FileTab's _path (None for a new file or for a generic Tab).    *)
(***************************************************************************)
TabTypes == {"Tab", "FileTab"}

\* The paths the user can open, and the file each one names: "a.txt" and
\* "./a.txt" are two spellings of one file.
FilePaths == {"a.txt", "./a.txt"}
FileOf(p) == CASE p = "a.txt" -> "inode1" [] p = "./a.txt" -> "inode1"

\* os.path.samefile
samefile(p, q) == FileOf(p) = FileOf(q)

\* isinstance(tab, cls) for a tab object or None; FileTab subclasses Tab.
isinstance(tab, cls) ==
    IF tab = None THEN cls = "NoneType"
    ELSE CASE cls = "Tab" -> tab[1].type \in {"Tab", "FileTab"}
           [] cls = "FileTab" -> tab[1].type = "FileTab"
           [] OTHER -> FALSE

\* A variant of equivalent that compares the path strings.
equivalentByName(self, other) ==
    IF self.type = "FileTab"
    THEN /\ other.type = "FileTab"
         /\ self.path # None
         /\ other.path # None
         /\ self.path[1] = other.path[1]
    ELSE FALSE

\* A variant of equivalent that takes two FileTabs without a path for one file.
equivalentNewFiles(self, other) ==
    IF self.type = "FileTab"
    THEN /\ other.type = "FileTab"
         /\ \/ self.path = None /\ other.path = None
            \/ /\ self.path # None
               /\ other.path # None
               /\ samefile(self.path[1], other.path[1])
    ELSE FALSE

\* Tab.equivalent / FileTab.equivalent: self.equivalent(other)
equivalent(self, other) ==
    IF self.type = "FileTab"
    THEN /\ other.type = "FileTab"
         /\ self.path # None
         /\ other.path # None
         /\ samefile(self.path[1], other.path[1])
    ELSE FALSE

\* The tabs a caller can construct: a generic Tab, a new FileTab, an opened file.
NewTabs ==
    {[type |-> "Tab", path |-> None], [type |-> "FileTab", path |-> None]}
    \cup {[type |-> "FileTab", path |-> Some(p)] : p \in FilePaths}

\* The identity of a newly constructed widget: one no live tab has.
FreshId(ts) == CHOOSE i \in 1..(Len(ts) + 1) : \A k \in DOMAIN ts : ts[k].id # i

(***************************************************************************)
(* ttk.Notebook, on a record nb = [tabs, current, pending].                *)
(***************************************************************************)
\* Selecting the selected tab again does nothing; a change posts the event.
NbSelectTab(nb, i) ==
    IF i = nb.current THEN nb
    ELSE [nb EXCEPT !.current = i, !.pending = @ + 1]

\* add / insert of a window the notebook does not manage yet, at position pos.
NbAddTab(nb, pos, tab) ==
    LET nb2 == [nb EXCEPT !.tabs = InsertAt(nb.tabs, pos, tab)]
    IN  IF nb.current = 0 THEN NbSelectTab(nb2, pos)
        ELSE IF nb.current >= pos THEN [nb2 EXCEPT !.current = @ + 1]
        ELSE nb2

\* A variant of NbNextTab that selects nothing in place of tab i.
NbNextTabNone(nb, i) == 0

\* The tab selected in place of tab i: the following one, else the preceding one.
NbNextTab(nb, i) ==
    IF i + 1 <= Len(nb.tabs) THEN i + 1
    ELSE IF i - 1 >= 1 THEN i - 1
    ELSE 0

\* forget(i)
NbForget(nb, i) ==
    LET sel == IF i = nb.current
               THEN [nb EXCEPT !.current = NbNextTab(nb, i), !.pending = @ + 1]
               ELSE nb
    IN  [tabs |-> RemoveAt(nb.tabs, i),
         current |-> IF i < sel.current THEN sel.current - 1 ELSE sel.current,
         pending |-> sel.pending]

\* TabManager.select() without argument: the selected tab or None.
select(nb) == IF nb.current = 0 THEN None ELSE Some(nb.tabs[nb.current])

\* index(tab): the position of a tab of the notebook.
IndexOf(ts, id) == CHOOSE i \in DOMAIN ts : ts[i].id = id

(***************************************************************************)
(* The action registry (actions.py).  An action path is the sequence of    *)
(* its parts and separators: "File/Save" is <<"File", "/", "Save">>.       *)
(***************************************************************************)
startswith(path, c) == Len(path) > 0 /\ path[1] = c
endswith(path, c) == Len(path) > 0 /\ path[Len(path)] = c

RECURSIVE rstrip(_, _)
rstrip(path, c) ==
    IF endswith(path, c) THEN rstrip(SubSeq(path, 1, Len(path) - 1), c) ELSE path

\* The value given to the enabled setter: isbool is isinstance(value, bool).
\* The third value is a truthy non-boolean such as 1.
EnabledValues ==
    {[isbool |-> TRUE, val |-> TRUE], [isbool |-> TRUE, val |-> FALSE],
     [isbool |-> FALSE, val |-> TRUE]}
Bool(b) == [isbool |-> TRUE, val |-> b]

\* Variants of _Action.__init__: one that starts disabled, one that keeps the
\* kind where the path belongs.
NewActionDisabled(path, kind, binding, var) ==
    [path |-> path, kind |-> kind, binding |-> binding,
     enabled |-> FALSE, var |-> var]

NewActionKindAsPath(path, kind, binding, var) ==
    [path |-> <<kind>>, kind |-> kind, binding |-> binding,
     enabled |-> TRUE, var |-> var]

\* _Action.__init__
NewAction(path, kind, binding, var) ==
    [path |-> path, kind |-> kind, binding |-> binding,
     enabled |-> TRUE, var |-> var]

\* A variant of the enabled setter that notifies on every assignment.
SetEnabledAlwaysNotifies(acts, path, value) ==
    IF ~value.isbool
    THEN [acts |-> acts, events |-> <<>>, raised |-> "TypeError"]
    ELSE [acts |-> [acts EXCEPT ![path].enabled = value.val],
          events |-> <<[name |-> IF value.val THEN "<<ActionEnabled>>"
                                 ELSE "<<ActionDisabled>>",
                        data |-> path]>>,
          raised |-> "none"]

\* _Action.enabled setter, on the registry: the result's acts is the registry
\* afterwards, events the notifications generated, raised the exception.
SetEnabled(acts, path, value) ==
    IF ~value.isbool
    THEN [acts |-> acts, events |-> <<>>, raised |-> "TypeError"]
    ELSE IF acts[path].enabled # value.val
    THEN [acts |-> [acts EXCEPT ![path].enabled = value.val],
          events |-> <<[name |-> IF value.val THEN "<<ActionEnabled>>"
                                 ELSE "<<ActionDisabled>>",
                        data |-> path]>>,
          raised |-> "none"]
    ELSE [acts |-> acts, events |-> <<>>, raised |-> "none"]

\* FileTab.filetype: every FileTab is constructed with the one file type.
filetype(tab) == [name |-> "Plain Text", filename_patterns |-> "*.txt"]

\* tabtypes as _add_any_action rewrites it: None stands for type(None).
TabTypeTuple(tabtypes) == {IF cls = "None" THEN "NoneType" ELSE cls : cls \in tabtypes}

\* The value enable_or_disable assigns, for a closure c = [path, tabtypes,
\* filetype_names] and the notebook as it is when the closure runs.
RuleValue(c, nb) ==
    LET tab == select(nb)
    IN  IF c.filetype_names # None
        THEN IF isinstance(tab, "FileTab")
             THEN filetype(tab[1]).name \in c.filetype_names[1]
             ELSE FALSE
        ELSE \E cls \in TabTypeTuple(c.tabtypes[1]) : isinstance(tab, cls)

\* enable_or_disable
enable_or_disable(acts, c, nb) == SetEnabled(acts, c.path, Bool(RuleValue(c, nb)))

\* The closures bound to <<NotebookTabChanged>>, run in bind order from the i-th.
RECURSIVE RunClosures(_, _, _, _)
RunClosures(acts, closures, nb, i) ==
    IF i > Len(closures) THEN [acts |-> acts, events |-> <<>>]
    ELSE LET r == enable_or_disable(acts, closures[i], nb)
             rest == RunClosures(r.acts, closures, nb, i + 1)
         IN  [acts |-> rest.acts, events |-> r.events \o rest.events]

\* A variant of _focus_selected_tab that calls nothing.
_focus_selected_tabNever(nb) == <<>>

\* TabManager._focus_selected_tab
_focus_selected_tab(nb) ==
    LET tab == select(nb)
    IN  IF tab # None THEN <<[name |-> "on_focus", data |-> tab[1].id]>> ELSE <<>>

\* One <<NotebookTabChanged>> event reaches its handlers: the tab manager's
\* own (bound in __init__), then the closures of the actions.
HandleTabChanged(acts, closures, nb) ==
    LET r == RunClosures(acts, closures, nb, 1)
    IN  [acts |-> r.acts, events |-> _focus_selected_tab(nb) \o r.events]

\* update(): the event loop runs until the queue is empty.
RECURSIVE update(_, _, _)
update(acts, closures, nb) ==
    IF nb.pending = 0 THEN [acts |-> acts, events |-> <<>>, nb |-> nb]
    ELSE LET r == HandleTabChanged(acts, closures, nb)
             rest == update(r.acts, closures, [nb EXCEPT !.pending = @ - 1])
         IN  [acts |-> rest.acts, events |-> r.events \o rest.events, nb |-> rest.nb]

\* The registration calls made, as arguments of _add_any_action: a command
\* enabled on FileTabs only, a second command bound to the same key, a yes/no
\* action, and calls the registry refuses.
Requests ==
    {[path |-> <<"File", "/", "Save">>, kind |-> "command",
      binding |-> Some("<Control-s>"), var |-> None,
      tabtypes |-> Some({"FileTab"}), filetype_names |-> None],
     [path |-> <<"File", "/", "Save All">>, kind |-> "command",
      binding |-> Some("<Control-s>"), var |-> None,
      tabtypes |-> None, filetype_names |-> None],
     [path |-> <<"View", "/", "Wrap">>, kind |-> "yesno",
      binding |-> Some("<Control-w>"), var |-> Some(FALSE),
      tabtypes |-> None, filetype_names |-> None],
     [path |-> <<"/", "File">>, kind |-> "command",
      binding |-> None, var |-> None,
      tabtypes |-> None, filetype_names |-> None],
     [path |-> <<"File", "/">>, kind |-> "command",
      binding |-> Some("<Control-w>"), var |-> None,
      tabtypes |-> Some({"FileTab"}), filetype_names |-> None],
     [path |-> <<"Edit", "/", "Find">>, kind |-> "command",
      binding |-> None, var |-> None,
      tabtypes |-> Some({"FileTab"}), filetype_names |-> Some({"Plain Text"})]}

Bindings == {"<Control-s>", "<Control-w>"}

\* Variants of the checks: without the duplicate check, without the path check.
ArgumentErrorNoDuplicate(acts, req) ==
    IF startswith(req.path, "/") \/ endswith(req.path, "/") THEN "ValueError"
    ELSE IF req.filetype_names # None /\ req.tabtypes # None THEN "TypeError"
    ELSE "none"

ArgumentErrorNoPathCheck(acts, req) ==
    IF req.filetype_names # None /\ req.tabtypes # None THEN "TypeError"
    ELSE IF req.path \in DOMAIN acts THEN "RuntimeError"
    ELSE "none"

\* The checks _add_any_action makes before it changes anything: the exception
\* raised, or "none".
ArgumentError(acts, req) ==
    IF startswith(req.path, "/") \/ endswith(req.path, "/") THEN "ValueError"
    ELSE IF req.filetype_names # None /\ req.tabtypes # None THEN "TypeError"
    ELSE IF req.path \in DOMAIN acts THEN "RuntimeError"
    ELSE "none"

\* _actions[path] = action
StoreAction(acts, path, action) ==
    [p \in DOMAIN acts \cup {path} |-> IF p = path THEN action ELSE acts[p]]

\* _add_any_action.  The result holds the registry, the closures bound to
\* <<NotebookTabChanged>> and the key bindings afterwards, the notifications
\* generated in order, and the exception raised ("none": the action is returned).
\* The <<NewAction>> notification carries what a handler of it finds in the
\* registry at that moment.
_add_any_action(acts, closures, keyb, nb, req) ==
    LET unchanged(exc) == [acts |-> acts, closures |-> closures, keyb |-> keyb,
                           events |-> <<>>, raised |-> exc]
        action == NewAction(req.path, req.kind, req.binding, req.var)
        acts1 == StoreAction(acts, req.path, action)
        newAction == [name |-> "<<NewAction>>", data |-> req.path,
                      seen |-> [registered |-> req.path \in DOMAIN acts1,
                                enabled |-> acts1[req.path].enabled]]
        hasRule == req.tabtypes # None \/ req.filetype_names # None
        c == [path |-> req.path, tabtypes |-> req.tabtypes,
              filetype_names |-> req.filetype_names]
        r == IF hasRule THEN enable_or_disable(acts1, c, nb)
             ELSE [acts |-> acts1, events |-> <<>>]
        closures2 == IF hasRule THEN Append(closures, c) ELSE closures
    IN  IF ArgumentError(acts, req) # "none"
        THEN unchanged(ArgumentError(acts, req))
        ELSE IF req.binding # None /\ req.kind \notin {"command", "yesno"}
        THEN [acts |-> r.acts, closures |-> closures2, keyb |-> keyb,
              events |-> <<newAction>> \o r.events, raised |-> "AssertionError"]
        ELSE [acts |-> r.acts, closures |-> closures2,
              keyb |-> IF req.binding # None
                       THEN Append(keyb, [binding |-> req.binding[1], path |-> req.path])
                       ELSE keyb,
              events |-> <<newAction>> \o r.events, raised |-> "none"]

\* get_action
get_action(acts, action_path) == acts[rstrip(action_path, "/")]

\* get_all_actions
get_all_actions(acts) == {acts[p] : p \in DOMAIN acts}

\* A variant of bind_callback that does not look at enabled.
bind_callbacksIgnoringEnabled(acts, handlers, i) ==
    IF i > Len(handlers) THEN [acts |-> acts, ran |-> <<>>, consumed |-> FALSE]
    ELSE LET path == handlers[i].path
         IN  [acts |-> IF acts[path].kind = "yesno"
                       THEN [acts EXCEPT ![path].var = Some(~acts[path].var[1])]
                       ELSE acts,
              ran |-> <<path>>, consumed |-> TRUE]

\* The bind_callback closures of one key, run in bind order from the i-th: an
\* enabled action runs its effect and returns 'break', which ends the event;
\* a disabled one returns None and the next binding script runs.  ran lists
\* the paths whose callback was invoked or whose variable was flipped.
RECURSIVE bind_callbacks(_, _, _)
bind_callbacks(acts, handlers, i) ==
    IF i > Len(handlers) THEN [acts |-> acts, ran |-> <<>>, consumed |-> FALSE]
    ELSE LET path == handlers[i].path
         IN  IF acts[path].enabled
             THEN [acts |-> IF acts[path].kind = "yesno"
                            THEN [acts EXCEPT ![path].var = Some(~acts[path].var[1])]
                            ELSE acts,
                   ran |-> <<path>>, consumed |-> TRUE]
             ELSE bind_callbacks(acts, handlers, i + 1)

\* The bindings of a key among all the bind_all bindings, in bind order.
HandlersOf(keyb, key) == SelectSeq(keyb, LAMBDA h : h.binding = key)

(***************************************************************************)
(* The tab manager (tabs.py), on the notebook record.                      *)
(***************************************************************************)
\* What a handler of a tab manager notification finds when it runs: the tabs
\* in order and the selected one (0 = none), by identity.
Seen(nb) ==
    [tabs |-> [i \in DOMAIN nb.tabs |-> nb.tabs[i].id],
     selected |-> IF nb.current = 0 THEN 0 ELSE nb.tabs[nb.current].id]

\* A variant of add_tab that puts the new tab in front of the others.
add_tabInFront(acts, closures, nb, tab, sel) ==
    LET added == NbAddTab(nb, 1, tab)
        u == update(acts, closures, IF sel THEN NbSelectTab(added, 1) ELSE added)
    IN  [nb |-> u.nb, acts |-> u.acts,
         events |-> u.events \o <<[name |-> "<<NewTab>>", data |-> tab.id,
                                    seen |-> Seen(u.nb)]>>,
         ret |-> tab.id]

\* TabManager.add_tab.  ret is the identity of the tab returned.
add_tab(acts, closures, nb, tab, sel) ==
    LET same == {i \in DOMAIN nb.tabs : equivalent(tab, nb.tabs[i])}
        first == CHOOSE i \in same : \A k \in same : i <= k
        n == Len(nb.tabs) + 1
        added == NbAddTab(nb, n, tab)
        u == update(acts, closures, IF sel THEN NbSelectTab(added, n) ELSE added)
    IN  IF same # {}
        THEN [nb |-> IF sel THEN NbSelectTab(nb, first) ELSE nb,
              acts |-> acts, events |-> <<>>, ret |-> nb.tabs[first].id]
        ELSE [nb |-> u.nb, acts |-> u.acts,
              events |-> u.events \o <<[name |-> "<<NewTab>>", data |-> tab.id,
                                         seen |-> Seen(u.nb)]>>,
              ret |-> tab.id]

\* A variant of close_tab that forgets the first tab.
close_tabFirst(nb, id) == NbForget(nb, 1)

\* TabManager.close_tab, for a tab of the notebook.
close_tab(nb, id) == NbForget(nb, IndexOf(nb.tabs, id))

\* TabManager.select(tab) for a tab of the notebook.
select_tab(nb, id) == NbSelectTab(nb, IndexOf(nb.tabs, id))

\* A variant of select_another_tab that wraps around at both ends.
select_another_tabWraps(nb, diff) ==
    IF nb.tabs = <<>> THEN [nb |-> nb, ret |-> FALSE]
    ELSE LET index == ((nb.current + diff - 1) % Len(nb.tabs)) + 1
         IN  [nb |-> NbSelectTab(nb, index), ret |-> TRUE]

\* TabManager.select_another_tab
select_another_tab(nb, diff) ==
    IF nb.tabs = <<>> THEN [nb |-> nb, ret |-> FALSE]
    ELSE LET index == nb.current + diff
         IN  IF index < 1 \/ index > Len(nb.tabs)
             THEN [nb |-> nb, ret |-> FALSE]
             ELSE [nb |-> NbSelectTab(nb, index), ret |-> TRUE]

\* A variant of move_selected_tab that does not select the moved tab again.
move_selected_tabNoSelect(nb, diff) ==
    IF nb.tabs = <<>> THEN [nb |-> nb, ret |-> FALSE]
    ELSE LET i1 == IF diff > 0 THEN nb.current ELSE nb.current + diff
             i2 == IF diff > 0 THEN nb.current + diff ELSE nb.current
         IN  IF i1 < 1 \/ i2 > Len(nb.tabs)
             THEN [nb |-> nb, ret |-> FALSE]
             ELSE [nb |-> NbAddTab(NbForget(nb, i2), i1, nb.tabs[i2]), ret |-> TRUE]

\* TabManager.move_selected_tab
move_selected_tab(nb, diff) ==
    IF nb.tabs = <<>> THEN [nb |-> nb, ret |-> FALSE]
    ELSE LET i1 == IF diff > 0 THEN nb.current ELSE nb.current + diff
             i2 == IF diff > 0 THEN nb.current + diff ELSE nb.current
         IN  IF i1 < 1 \/ i2 > Len(nb.tabs)
             THEN [nb |-> nb, ret |-> FALSE]
             ELSE LET tab == nb.tabs[i2]
                      selected == (i2 = nb.current)
                      moved == NbAddTab(NbForget(nb, i2), i1, tab)
                  IN  [nb |-> IF selected THEN NbSelectTab(moved, i1) ELSE moved,
                       ret |-> TRUE]

Nb == [tabs |-> tabs, current |-> current, pending |-> pending]

(***************************************************************************)
(* The save state of a FileTab (tabs.py).  The text is the sequence of the *)
(* characters in the text widget, without the newline Tk keeps at the end. *)
(***************************************************************************)
\* The characters typed: a question mark, a letter outside ASCII, a newline.
Chars == {"?", "e-acute", "\n"}

\* The encodings config['encoding'] takes: the default and a narrower one.
Encodings == {"UTF-8", "ascii"}

\* str.encode(encoding, errors='replace') of one character, as bytes: a
\* character the encoding lacks becomes a question mark.
EncodeChar(ch, enc) ==
    CASE ch = "?" -> <<63>>
      [] ch = "\n" -> <<10>>
      [] ch = "e-acute" -> IF enc = "UTF-8" THEN <<195, 169>> ELSE <<63>>

RECURSIVE encode(_, _)
encode(text, enc) ==
    IF text = <<>> THEN <<>>
    ELSE EncodeChar(Head(text), enc) \o encode(Tail(text), enc)

\* The number of characters before line k of the text (lines count from 1).
LineOffset(text, k) ==
    LET newlines == {i \in DOMAIN text : text[i] = "\n"}
    IN  IF k = 1 THEN 0
        ELSE CHOOSE i \in newlines : Cardinality({j \in newlines : j <= i}) = k - 1

\* The last line of the widget: index('end') is the line after it.
LastLine(text) == Cardinality({i \in DOMAIN text : text[i] = "\n"}) + 1

\* A variant of iter_chunks that yields the last chunk also when it is empty.
RECURSIVE iter_chunksYieldsEmpty(_, _, _)
iter_chunksYieldsEmpty(text, n, start) ==
    IF start + n > LastLine(text)
    THEN <<SubSeq(text, LineOffset(text, start) + 1, Len(text))>>
    ELSE <<SubSeq(text, LineOffset(text, start) + 1, LineOffset(text, start + n))>>
         \o iter_chunksYieldsEmpty(text, n, start + n)

\* FileTab.iter_chunks from line start on: the chunks of n lines, in order.
RECURSIVE iter_chunks(_, _, _)
iter_chunks(text, n, start) ==
    LET end == start + n
        last_chunk == SubSeq(text, LineOffset(text, start) + 1, Len(text))
    IN  IF end > LastLine(text)
        THEN IF last_chunk # <<>> THEN <<last_chunk>> ELSE <<>>
        ELSE <<SubSeq(text, LineOffset(text, start) + 1, LineOffset(text, end))>>
             \o iter_chunks(text, n, end)

\* The default of iter_chunks' parameter n.
ChunkLines == 100

\* hashlib.md5: update() appends to the bytes digested, and the digest is a
\* value of those bytes alone.  Two digests are equal iff the bytes are:
\* collisions of MD5 are not modelled.
RECURSIVE md5_update(_, _, _, _)
md5_update(bytes, chunks, enc, i) ==
    IF i > Len(chunks) THEN bytes
    ELSE md5_update(bytes \o encode(chunks[i], enc), chunks, enc, i + 1)

hexdigest(bytes) == <<"md5", bytes>>

\* FileTab._get_hash
_get_hash(text, enc) ==
    hexdigest(md5_update(<<>>, iter_chunks(text, ChunkLines, 1), enc, 1))

\* A variant of mark_saved that keeps the digest it has.
mark_savedKeeps(text, enc, hash) == hash

\* FileTab.mark_saved: the new _save_hash.
mark_saved(text, enc, hash) == _get_hash(text, enc)

\* FileTab.is_saved
is_saved(text, enc, hash) == _get_hash(text, enc) = hash

\* os.path.basename of the paths.
basename(p) == CASE p = "a.txt" -> "a.txt" [] p = "./a.txt" -> "a.txt" [] p = "./A.TXT" -> "A.TXT"

\* A variant of _update_title that never marks the title.
_update_titlePlain(text, enc, hash, path) ==
    IF path = None THEN <<"New File">> ELSE <<basename(path[1])>>

\* FileTab._update_title: the title, as the parts of the string: the name,
\* between two asterisks when is_saved() is false.
_update_title(text, enc, hash, path) ==
    IF is_saved(text, enc, hash)
    THEN (IF path = None THEN <<"New File">> ELSE <<basename(path[1])>>)
    ELSE (IF path = None THEN <<"*", "New File", "*">> ELSE <<"*", basename(path[1]), "*">>)

\* FileTab._update_status: the status, up to the place of the cursor.
_update_status(path) ==
    [prefix |-> IF path = None THEN <<"New file">> ELSE <<"File", path[1]>>,
     filetype |-> "Plain Text"]

(***************************************************************************)
(* The operations, one step each.                                          *)
(***************************************************************************)
Init ==
    /\ tabs = <<>>
    /\ current = 0
    /\ pending = 0
    /\ _actions = <<>>
    /\ nbBindings = <<>>
    /\ keyBindings = <<>>
    /\ explicit = {}
    /\ textwidget = <<>>
    /\ encoding = "UTF-8"
    /\ _save_hash = mark_saved(<<>>, "UTF-8", None)
    /\ savedText = <<>>
    /\ unsaved = {}
    /\ owed = {}
    /\ files = <<>>
    /\ _path = None
    /\ _loaded_json = <<>> /\ _var_cache = <<>> /\ errorvar = <<>>
    /\ fixedfont = [family |-> "Courier", size |-> 10] /\ settings_json = <<>>
    /\ content = <<>> /\ _tokens = <<>> /\ tokenizedFrom = <<>>
    /\ _title = _update_title(textwidget, encoding, _save_hash, _path)
    /\ _status = _update_status(_path)
    /\ emitted = <<>>
    /\ last = [op |-> "init"]

SetNb(nb) ==
    /\ nb.pending <= MaxPending
    /\ tabs' = nb.tabs
    /\ current' = nb.current
    /\ pending' = nb.pending

\* A registration call.
Register(req) ==
    LET r == _add_any_action(_actions, nbBindings, keyBindings, Nb, req)
    IN  /\ _actions' = r.acts
        /\ nbBindings' = r.closures
        /\ keyBindings' = r.keyb
        /\ emitted' = r.events
        /\ last' = [op |-> "register", req |-> req, raised |-> r.raised]
        /\ UNCHANGED <<tabs, current, pending, explicit, fileVars, unsaved>>

\* get_action(path).enabled = value, by a caller of the registry.
AssignEnabled(path, value) ==
    LET r == SetEnabled(_actions, rstrip(path, "/"), value)
    IN  /\ rstrip(path, "/") \in DOMAIN _actions
        /\ _actions' = r.acts
        /\ emitted' = r.events
        /\ explicit' = IF r.acts # _actions THEN explicit \cup {rstrip(path, "/")}
                       ELSE explicit
        /\ last' = [op |-> "set_enabled", path |-> rstrip(path, "/"),
                    value |-> value, raised |-> r.raised]
        /\ UNCHANGED <<tabs, current, pending, nbBindings, keyBindings, fileVars, unsaved>>

\* The user presses a key that actions may be bound to.
KeyPress(key) ==
    LET r == bind_callbacks(_actions, HandlersOf(keyBindings, key), 1)
    IN  /\ _actions' = r.acts
        /\ emitted' = <<>>
        /\ last' = [op |-> "key", key |-> key, ran |-> r.ran, consumed |-> r.consumed]
        /\ UNCHANGED <<tabs, current, pending, nbBindings, keyBindings, explicit, fileVars, unsaved>>

AddTab(desc, sel) ==
    LET tab == [id |-> FreshId(tabs), type |-> desc.type, path |-> desc.path]
        r == add_tab(_actions, nbBindings, Nb, tab, sel)
    IN  /\ Len(r.nb.tabs) <= MaxTabs
        /\ SetNb(r.nb)
        /\ _actions' = r.acts
        /\ emitted' = r.events
        /\ last' = [op |-> "add_tab", tab |-> tab, sel |-> sel, ret |-> r.ret]
        /\ UNCHANGED <<nbBindings, keyBindings, explicit, fileVars, unsaved>>

CloseTab(id) ==
    /\ SetNb(close_tab(Nb, id))
    /\ unsaved' = unsaved \ {id}
    /\ emitted' = <<>>
    /\ last' = [op |-> "close_tab", tab |-> id, dirty |-> id \in unsaved]
    /\ UNCHANGED <<regVars, fileVars>>

Select(id) ==
    /\ SetNb(select_tab(Nb, id))
    /\ emitted' = <<>>
    /\ last' = [op |-> "select", tab |-> id]
    /\ UNCHANGED <<regVars, fileVars, unsaved>>

SelectAnotherTab(diff) ==
    LET r == select_another_tab(Nb, diff)
    IN  /\ SetNb(r.nb)
        /\ emitted' = <<>>
        /\ last' = [op |-> "select_another_tab", diff |-> diff, ret |-> r.ret]
        /\ UNCHANGED <<regVars, fileVars, unsaved>>

MoveSelectedTab(diff) ==
    LET r == move_selected_tab(Nb, diff)
    IN  /\ SetNb(r.nb)
        /\ emitted' = <<>>
        /\ last' = [op |-> "move_selected_tab", diff |-> diff, ret |-> r.ret]
        /\ UNCHANGED <<regVars, fileVars, unsaved>>

\* The event loop takes the next <<NotebookTabChanged>> from the queue.
DispatchTabChanged ==
    LET r == HandleTabChanged(_actions, nbBindings, Nb)
    IN  /\ pending > 0
        /\ pending' = pending - 1
        /\ _actions' = r.acts
        /\ emitted' = r.events
        /\ last' = [op |-> "event"]
        /\ UNCHANGED <<tabs, current, nbBindings, keyBindings, explicit, fileVars, unsaved>>

LookupPaths == {r.path : r \in Requests} \cup {<<"File", "/", "Save", "/">>}

\* The registrations that succeed and carry an enablement rule.
RuleRequests ==
    {r \in Requests : /\ ~startswith(r.path, "/") /\ ~endswith(r.path, "/")
                      /\ (r.tabtypes # None) # (r.filetype_names # None)}

(***************************************************************************)
(* Spec: the tab manager under every sequence of its operations, with the  *)
(* rule-carrying actions registered at any moment.                         *)
(***************************************************************************)
Next ==
    \/ \E req \in RuleRequests : Register(req) /\ UNCHANGED <<owed, diskVars, cfgVars, tokVars, shownVars>>
    \/ \E path \in LookupPaths, value \in EnabledValues : AssignEnabled(path, value) /\ UNCHANGED <<owed, diskVars, cfgVars, tokVars, shownVars>>
    \/ \E desc \in NewTabs, sel \in BOOLEAN : AddTab(desc, sel) /\ UNCHANGED <<owed, diskVars, cfgVars, tokVars, shownVars>>
    \/ \E i \in DOMAIN tabs : CloseTab(tabs[i].id) /\ UNCHANGED <<owed, diskVars, cfgVars, tokVars, shownVars>>
    \/ \E i \in DOMAIN tabs : Select(tabs[i].id) /\ UNCHANGED <<owed, diskVars, cfgVars, tokVars, shownVars>>
    \/ \E diff \in {-1, 1} : SelectAnotherTab(diff) /\ UNCHANGED <<owed, diskVars, cfgVars, tokVars, shownVars>>
    \/ \E diff \in {-1, 1} : MoveSelectedTab(diff) /\ UNCHANGED <<owed, diskVars, cfgVars, tokVars, shownVars>>
    \/ DispatchTabChanged /\ UNCHANGED <<owed, diskVars, cfgVars, tokVars, shownVars>>

Spec == Init /\ [][Next]_vars

(***************************************************************************)
(* SpecActions: the registry under every sequence of registrations,        *)
(* assignments of enabled and key presses, for each kind of selected tab.  *)
(***************************************************************************)
InitActions ==
    /\ tabs \in {<<>>, <<[id |-> 1, type |-> "Tab", path |-> None]>>,
                 <<[id |-> 1, type |-> "FileTab", path |-> None]>>}
    /\ current = Len(tabs)
    /\ pending = 0
    /\ _actions = <<>>
    /\ nbBindings = <<>>
    /\ keyBindings = <<>>
    /\ explicit = {}
    /\ textwidget = <<>>
    /\ encoding = "UTF-8"
    /\ _save_hash = mark_saved(<<>>, "UTF-8", None)
    /\ savedText = <<>>
    /\ unsaved = {}
    /\ owed = {}
    /\ files = <<>>
    /\ _path = None
    /\ _loaded_json = <<>> /\ _var_cache = <<>> /\ errorvar = <<>>
    /\ fixedfont = [family |-> "Courier", size |-> 10] /\ settings_json = <<>>
    /\ content = <<>> /\ _tokens = <<>> /\ tokenizedFrom = <<>>
    /\ _title = _update_title(textwidget, encoding, _save_hash, _path)
    /\ _status = _update_status(_path)
    /\ emitted = <<>>
    /\ last = [op |-> "init"]

NextActions ==
    \/ \E req \in Requests : Register(req) /\ UNCHANGED <<owed, diskVars, cfgVars, tokVars, shownVars>>
    \/ \E path \in LookupPaths, value \in EnabledValues : AssignEnabled(path, value) /\ UNCHANGED <<owed, diskVars, cfgVars, tokVars, shownVars>>
    \/ \E key \in Bindings : KeyPress(key) /\ UNCHANGED <<owed, diskVars, cfgVars, tokVars, shownVars>>

SpecActions == InitActions /\ [][NextActions]_vars

(***************************************************************************)
(* SpecFile: one FileTab under every sequence of edits, mark_saved() and   *)
(* is_saved() calls and changes of the configured encoding.                *)
(***************************************************************************)
\* The user types a character at a position of the text.
Insert(ch, pos) ==
    /\ Len(textwidget) < MaxLen
    /\ textwidget' = InsertAt(textwidget, pos, ch)
    /\ last' = [op |-> "insert"]
    /\ UNCHANGED <<nbVars, regVars, _save_hash, encoding, savedText, emitted, unsaved>>

\* The user deletes the character at a position of the text.
Delete(pos) ==
    /\ textwidget' = RemoveAt(textwidget, pos)
    /\ last' = [op |-> "delete"]
    /\ UNCHANGED <<nbVars, regVars, _save_hash, encoding, savedText, emitted, unsaved>>

MarkSaved ==
    /\ _save_hash' = mark_saved(textwidget, encoding, _save_hash)
    /\ savedText' = textwidget
    /\ _title' = _update_title(textwidget, encoding, _save_hash', _path)
    /\ last' = [op |-> "mark_saved"]
    /\ UNCHANGED <<nbVars, regVars, textwidget, encoding, emitted, unsaved, _status>>

IsSaved ==
    /\ last' = [op |-> "is_saved", ret |-> is_saved(textwidget, encoding, _save_hash)]
    /\ UNCHANGED <<nbVars, regVars, fileVars, unsaved, emitted>>

\* The user changes the encoding in the settings dialog.
SetEncoding(enc) ==
    /\ enc # encoding
    /\ encoding' = enc
    /\ last' = [op |-> "set_encoding"]
    /\ UNCHANGED <<nbVars, regVars, textwidget, _save_hash, savedText, emitted, unsaved>>

NextFile ==
    \/ \E ch \in Chars, pos \in 1..(Len(textwidget) + 1) : Insert(ch, pos) /\ UNCHANGED <<owed, diskVars, cfgVars, tokVars, shownVars>>
    \/ \E pos \in DOMAIN textwidget : Delete(pos) /\ UNCHANGED <<owed, diskVars, cfgVars, tokVars, shownVars>>
    \/ MarkSaved /\ UNCHANGED <<owed, diskVars, cfgVars, tokVars>>
    \/ IsSaved /\ UNCHANGED <<owed, diskVars, cfgVars, tokVars, shownVars>>
    \/ \E enc \in Encodings : SetEncoding(enc) /\ UNCHANGED <<owed, diskVars, cfgVars, tokVars, shownVars>>

SpecFile == Init /\ [][NextFile]_vars

(***************************************************************************)
(* Closing tabs: FileTab.can_be_closed with save and save_as (tabs.py),    *)
(* the close button and Alt-N of the tab manager (tabs.py), File/Close and *)
(* quit (_run.py).  Here a FileTab's text is known by is_saved() alone.    *)
(***************************************************************************)
\* What happens around one can_be_closed(): the answer to "Do you want to
\* save your changes?", the name given to the save-as dialog ("" when it is
\* cancelled), and whether writing the file works.
Envs ==
    {[answer |-> "cancel", dialog |-> "", io |-> "ok"],
     [answer |-> "no", dialog |-> "", io |-> "ok"],
     [answer |-> "yes", dialog |-> "", io |-> "ok"],
     [answer |-> "yes", dialog |-> "a.txt", io |-> "ok"],
     [answer |-> "yes", dialog |-> "a.txt", io |-> "OSError"]}

\* Python's truth value of what save() and can_be_closed() return.
Truthy(ret) == ret = "True"

\* FileTab.save_as and FileTab.save call each other.  Each gives what it
\* returns, the tab (save_as sets its path), whether mark_saved() was called,
\* and the notifications and dialogs, in order.  env.io is how the writing of
\* the file ended.
\* os.path.normcase, on POSIX: the path itself.
normcase(p) == p

\* A variant of the setter that generates <<PathChanged>> at every assignment.
path_setterAlways(tab, new_path) ==
    [tab |-> [tab EXCEPT !.path = new_path],
     events |-> <<[name |-> "<<PathChanged>>", data |-> tab.id]>>]

\* The setter of FileTab.path: <<PathChanged>> is generated when the path
\* changes (to or from None, or to another string).
path_setter(tab, new_path) ==
    LET it_changes == IF tab.path = None /\ new_path = None THEN FALSE
                      ELSE IF tab.path = None \/ new_path = None THEN TRUE
                      ELSE normcase(tab.path[1]) # normcase(new_path[1])
    IN  [tab |-> [tab EXCEPT !.path = new_path],
         events |-> IF it_changes THEN <<[name |-> "<<PathChanged>>", data |-> tab.id]>>
                    ELSE <<>>]

\* FileTab.save for a tab that has a path: the file is written, or the
\* error is shown in a dialog.
save_to_path(tab, env) ==
    IF env.io = "ok"
    THEN [ret |-> "True", tab |-> tab, marked |-> TRUE,
          events |-> <<[name |-> "<<Save>>", data |-> tab.id]>>]
    ELSE [ret |-> "None", tab |-> tab, marked |-> FALSE,
          events |-> <<[name |-> "<<Save>>", data |-> tab.id],
                       [name |-> "errordialog", data |-> env.io]>>]

\* self.path = path; self.save(); return True
save_at(set, env) ==
    [save_to_path(set.tab, env) EXCEPT !.ret = "True", !.events = set.events \o @]

\* A variant of save_as that takes a cancelled dialog for the path ./a.txt.
save_asIgnoresCancel(tab, env) == save_at(path_setter(tab, Some("./a.txt")), env)

\* FileTab.save_as: the path is set before save() is called, which finds it.
save_as(tab, env) ==
    IF env.dialog = ""
    THEN [ret |-> "False", tab |-> tab, marked |-> FALSE, events |-> <<>>]
    ELSE save_at(path_setter(tab, Some(env.dialog)), env)

\* FileTab.save
save(tab, env) ==
    IF tab.path = None THEN save_as(tab, env) ELSE save_to_path(tab, env)

\* A variant of can_be_closed that saves on yes and returns True whatever
\* save() returned.
can_be_closedAfterAnySave(tab, uns, env) ==
    IF tab.type # "FileTab" \/ ~uns
    THEN [ret |-> "True", tab |-> tab, unsaved |-> uns, events |-> <<>>]
    ELSE IF env.answer = "cancel"
    THEN [ret |-> "False", tab |-> tab, unsaved |-> uns,
          events |-> <<[name |-> "askyesnocancel", data |-> tab.id]>>]
    ELSE IF env.answer = "no"
    THEN [ret |-> "True", tab |-> tab, unsaved |-> uns,
          events |-> <<[name |-> "askyesnocancel", data |-> tab.id]>>]
    ELSE [ret |-> "True", tab |-> save(tab, env).tab,
          unsaved |-> uns /\ ~save(tab, env).marked,
          events |-> <<[name |-> "askyesnocancel", data |-> tab.id]>> \o save(tab, env).events]

\* Tab.can_be_closed / FileTab.can_be_closed.  unsaved is ~is_saved() afterwards.
can_be_closed(tab, uns, env) ==
    IF tab.type # "FileTab" \/ ~uns
    THEN [ret |-> "True", tab |-> tab, unsaved |-> uns, events |-> <<>>]
    ELSE LET ask == <<[name |-> "askyesnocancel", data |-> tab.id]>>
             r == save(tab, env)
         IN  CASE env.answer = "cancel" ->
                    [ret |-> "False", tab |-> tab, unsaved |-> uns, events |-> ask]
               [] env.answer = "yes" ->
                    [ret |-> r.ret, tab |-> r.tab, unsaved |-> uns /\ ~r.marked,
                     events |-> ask \o r.events]
               [] env.answer = "no" ->
                    [ret |-> "True", tab |-> tab, unsaved |-> uns, events |-> ask]

\* The set unsaved after a call on the tab left it unsaved or not.
SetUnsaved(set, id, uns) == IF uns THEN set \cup {id} ELSE set \ {id}

\* A variant of the close paths that closes the tab whatever the check says.
check_and_closeAnyway(nb, set, i, env) ==
    LET r == can_be_closed(nb.tabs[i], nb.tabs[i].id \in set, env)
    IN  [nb |-> close_tab(nb, r.tab.id), unsaved |-> set \ {r.tab.id},
         checked |-> <<[tab |-> r.tab.id, ret |-> r.ret]>>,
         closed |-> <<r.tab.id>>, events |-> r.events]

\* if tab.can_be_closed(): close_tab(tab), for the tab at place i.
check_and_close(nb, set, i, env) ==
    LET r == can_be_closed(nb.tabs[i], nb.tabs[i].id \in set, env)
        kept == [nb EXCEPT !.tabs[i] = r.tab]
        ok == Truthy(r.ret)
    IN  [nb |-> IF ok THEN close_tab(kept, r.tab.id) ELSE kept,
         unsaved |-> IF ok THEN set \ {r.tab.id} ELSE SetUnsaved(set, r.tab.id, r.unsaved),
         checked |-> <<[tab |-> r.tab.id, ret |-> r.ret]>>,
         closed |-> IF ok THEN <<r.tab.id>> ELSE <<>>,
         events |-> r.events]

\* quit(): the first loop, from the tab at place i on.
RECURSIVE quit_checks(_, _, _, _)
quit_checks(ts, set, envs, i) ==
    IF i > Len(ts)
    THEN [ok |-> TRUE, tabs |-> ts, unsaved |-> set, checked |-> <<>>, events |-> <<>>]
    ELSE LET r == can_be_closed(ts[i], ts[i].id \in set, envs[i])
             ts2 == [ts EXCEPT ![i] = r.tab]
             set2 == SetUnsaved(set, r.tab.id, r.unsaved)
             c == <<[tab |-> r.tab.id, ret |-> r.ret]>>
             rest == quit_checks(ts2, set2, envs, i + 1)
         IN  IF ~Truthy(r.ret)
             THEN [ok |-> FALSE, tabs |-> ts2, unsaved |-> set2, checked |-> c,
                   events |-> r.events]
             ELSE [rest EXCEPT !.checked = c \o @, !.events = r.events \o @]

\* quit(): the second loop closes every tab, first to last.
RECURSIVE close_all(_)
close_all(nb) ==
    IF nb.tabs = <<>> THEN [nb |-> nb, closed |-> <<>>]
    ELSE LET rest == close_all(close_tab(nb, nb.tabs[1].id))
         IN  [rest EXCEPT !.closed = <<nb.tabs[1].id>> \o @]

\* A variant of quit that goes on after a refusal.
quitAnyway(nb, set, envs) ==
    [nb |-> [close_all([nb EXCEPT !.tabs = quit_checks(nb.tabs, set, envs, 1).tabs]).nb
                EXCEPT !.pending = 0],
     unsaved |-> {},
     checked |-> quit_checks(nb.tabs, set, envs, 1).checked,
     closed |-> close_all(nb).closed,
     events |-> quit_checks(nb.tabs, set, envs, 1).events
                \o <<[name |-> "<<SimpleEditorQuit>>", data |-> 0, seen |-> Seen(nb)]>>,
     destroyed |-> TRUE]

\* quit().  Destroying the main window drops the events still queued.
quit(nb, set, envs) ==
    LET r == quit_checks(nb.tabs, set, envs, 1)
        kept == [nb EXCEPT !.tabs = r.tabs]
        c == close_all(kept)
    IN  IF ~r.ok
        THEN [nb |-> kept, unsaved |-> r.unsaved, checked |-> r.checked,
              closed |-> <<>>, events |-> r.events, destroyed |-> FALSE]
        ELSE [nb |-> [c.nb EXCEPT !.pending = 0], unsaved |-> {},
              checked |-> r.checked, closed |-> c.closed,
              events |-> r.events \o <<[name |-> "<<SimpleEditorQuit>>", data |-> 0,
                                         seen |-> Seen(kept)]>>,
              destroyed |-> TRUE]

\* TabManager._on_alt_n: select(n - 1) by place, which ttk refuses when there
\* is no such tab.
_on_alt_n(nb, n) ==
    IF n \in DOMAIN nb.tabs THEN [nb |-> NbSelectTab(nb, n), ret |-> "break"]
    ELSE [nb |-> nb, ret |-> "None"]

\* TabManager._on_click on the close button of the tab at place i.
ClickClose(i, env) ==
    LET r == check_and_close(Nb, unsaved, i, env)
    IN  /\ SetNb(r.nb)
        /\ unsaved' = r.unsaved
        /\ emitted' = r.events
        /\ last' = [op |-> "click_close", tab |-> tabs[i].id,
                    checked |-> r.checked, closed |-> r.closed]
        /\ UNCHANGED <<regVars, fileVars>>

\* close_selected_tab, the callback of File/Close.  Without a selected tab
\* None.can_be_closed raises AttributeError.
CloseSelectedTab(env) ==
    LET r == check_and_close(Nb, unsaved, current, env)
    IN  /\ IF current = 0
           THEN /\ UNCHANGED <<nbVars, unsaved>>
                /\ emitted' = <<>>
                /\ last' = [op |-> "close_selected_tab", tab |-> 0, checked |-> <<>>,
                            closed |-> <<>>, raised |-> "AttributeError"]
           ELSE /\ SetNb(r.nb)
                /\ unsaved' = r.unsaved
                /\ emitted' = r.events
                /\ last' = [op |-> "close_selected_tab", tab |-> tabs[current].id,
                            checked |-> r.checked, closed |-> r.closed,
                            raised |-> "none"]
        /\ UNCHANGED <<regVars, fileVars>>

Quit(envs) ==
    LET r == quit(Nb, unsaved, envs)
    IN  /\ SetNb(r.nb)
        /\ unsaved' = r.unsaved
        /\ emitted' = r.events
        /\ last' = [op |-> "quit", checked |-> r.checked, closed |-> r.closed,
                    destroyed |-> r.destroyed]
        /\ UNCHANGED <<regVars, fileVars>>

AltN(n) ==
    LET r == _on_alt_n(Nb, n)
    IN  /\ SetNb(r.nb)
        /\ emitted' = <<>>
        /\ last' = [op |-> "alt_n", n |-> n, ret |-> r.ret]
        /\ UNCHANGED <<regVars, fileVars, unsaved>>

\* The user edits the text of a FileTab; is_saved() is ~dirty afterwards.
EditTab(id, dirty) ==
    /\ unsaved' = SetUnsaved(unsaved, id, dirty)
    /\ emitted' = <<>>
    /\ last' = [op |-> "edit", tab |-> id]
    /\ UNCHANGED <<nbVars, regVars, fileVars>>

\* add_tab of a tab the manager already has: the assertion fails.
AddTabAgain(id, sel) ==
    /\ emitted' = <<>>
    /\ last' = [op |-> "add_tab_again", tab |-> id, sel |-> sel,
                raised |-> "AssertionError"]
    /\ UNCHANGED <<nbVars, regVars, fileVars, unsaved>>

\* The tabs that became selected and were not given on_focus() since.
Owed(before, pre, post, events) ==
    LET became == IF Seen(post).selected \notin {0, Seen(pre).selected}
                  THEN {Seen(post).selected} ELSE {}
        focused == {events[k].data : k \in {j \in DOMAIN events :
                                           events[j].name = "on_focus"}}
    IN  ((before \cup became) \ focused) \cap Range(Seen(post).tabs)

Track == owed' = Owed(owed, Nb, Nb', emitted')

\* quit() has not destroyed the main window.
Running == last.op = "quit" => ~last.destroyed

\* The environments that matter for a tab: those of a FileTab that asks, and
\* one for a tab that does not.
EnvsFor(tab, set) ==
    IF tab.type = "FileTab" /\ tab.id \in set THEN Envs
    ELSE {[answer |-> "cancel", dialog |-> "", io |-> "ok"]}

EnvsForAll(ts, set) ==
    {envs \in [DOMAIN ts -> Envs] : \A i \in DOMAIN ts : envs[i] \in EnvsFor(ts[i], set)}

\* The tabs opened while closing is examined: a generic Tab, a new file, a
\* file with a path.
ClosableTabs == {t \in NewTabs : t.path \in {None, Some("a.txt")}}

\* The tabs opened while selection is examined: a generic Tab and a new file.
UnnamedTabs == {t \in NewTabs : t.path = None}

(***************************************************************************)
(* SpecTabs: the tab manager under every sequence of the operations that   *)
(* add, remove, move and select tabs, with the delivery of the queued      *)
(* <<NotebookTabChanged>> events at any moment.  Every FileTab is saved.   *)
(***************************************************************************)
NextTabs ==
    \/ Running /\ \E desc \in UnnamedTabs, sel \in BOOLEAN : AddTab(desc, sel) /\ Track /\ UNCHANGED <<diskVars, cfgVars, tokVars, shownVars>>
    \/ Running /\ \E i \in DOMAIN tabs : AddTabAgain(tabs[i].id, TRUE) /\ Track /\ UNCHANGED <<diskVars, cfgVars, tokVars, shownVars>>
    \/ Running /\ \E i \in DOMAIN tabs : CloseTab(tabs[i].id) /\ Track /\ UNCHANGED <<diskVars, cfgVars, tokVars, shownVars>>
    \/ Running /\ \E i \in DOMAIN tabs : Select(tabs[i].id) /\ Track /\ UNCHANGED <<diskVars, cfgVars, tokVars, shownVars>>
    \/ Running /\ \E diff \in {-1, 1} : SelectAnotherTab(diff) /\ Track /\ UNCHANGED <<diskVars, cfgVars, tokVars, shownVars>>
    \/ Running /\ \E diff \in {-1, 1} : MoveSelectedTab(diff) /\ Track /\ UNCHANGED <<diskVars, cfgVars, tokVars, shownVars>>
    \/ Running /\ \E n \in 1..(MaxTabs + 1) : AltN(n) /\ Track /\ UNCHANGED <<diskVars, cfgVars, tokVars, shownVars>>
    \/ Running /\ \E i \in DOMAIN tabs : \E env \in EnvsFor(tabs[i], unsaved) :
           ClickClose(i, env) /\ Track /\ UNCHANGED <<diskVars, cfgVars, tokVars, shownVars>>
    \/ Running /\ \E env \in Envs :
           (current # 0 => env \in EnvsFor(tabs[current], unsaved))
           /\ CloseSelectedTab(env) /\ Track /\ UNCHANGED <<diskVars, cfgVars, tokVars, shownVars>>
    \/ Running /\ \E envs \in EnvsForAll(tabs, unsaved) : Quit(envs) /\ Track /\ UNCHANGED <<diskVars, cfgVars, tokVars, shownVars>>
    \/ Running /\ DispatchTabChanged /\ Track /\ UNCHANGED <<diskVars, cfgVars, tokVars, shownVars>>

SpecTabs == Init /\ [][NextTabs]_vars

(***************************************************************************)
(* SpecClose: the ways to close tabs, with the edits that make FileTabs    *)
(* unsaved and every answer to the dialogs.  The user acts when the event  *)
(* queue is empty.                                                         *)
(***************************************************************************)
NextClose ==
    \/ Running /\ pending = 0 /\ \E desc \in ClosableTabs : AddTab(desc, TRUE) /\ UNCHANGED <<owed, diskVars, cfgVars, tokVars, shownVars>>
    \/ Running /\ pending = 0 /\ \E i \in DOMAIN tabs : CloseTab(tabs[i].id) /\ UNCHANGED <<owed, diskVars, cfgVars, tokVars, shownVars>>
    \/ Running /\ pending = 0 /\ \E i \in DOMAIN tabs : Select(tabs[i].id) /\ UNCHANGED <<owed, diskVars, cfgVars, tokVars, shownVars>>
    \/ Running /\ pending = 0 /\ \E i \in DOMAIN tabs : \E env \in EnvsFor(tabs[i], unsaved) :
           ClickClose(i, env) /\ UNCHANGED <<owed, diskVars, cfgVars, tokVars, shownVars>>
    \/ Running /\ pending = 0 /\ \E env \in Envs :
           (current # 0 => env \in EnvsFor(tabs[current], unsaved))
           /\ CloseSelectedTab(env) /\ UNCHANGED <<owed, diskVars, cfgVars, tokVars, shownVars>>
    \/ Running /\ pending = 0 /\ \E envs \in EnvsForAll(tabs, unsaved) :
           Quit(envs) /\ UNCHANGED <<owed, diskVars, cfgVars, tokVars, shownVars>>
    \/ Running /\ pending = 0 /\ \E i \in DOMAIN tabs, dirty \in BOOLEAN :
           tabs[i].type = "FileTab" /\ EditTab(tabs[i].id, dirty) /\ UNCHANGED <<owed, diskVars, cfgVars, tokVars, shownVars>>
    \/ Running /\ DispatchTabChanged /\ UNCHANGED <<owed, diskVars, cfgVars, tokVars, shownVars>>

SpecClose == Init /\ [][NextClose]_vars

(***************************************************************************)
(* The properties.                                                         *)
(***************************************************************************)
TabOps == {"add_tab", "close_tab", "select", "select_another_tab", "move_selected_tab"}

\* The actions registered with the rule tabtypes=[FileTab] whose flag no
\* caller has flipped.
FileTabRuled ==
    {nbBindings[i].path : i \in {k \in DOMAIN nbBindings :
         nbBindings[k].tabtypes = Some({"FileTab"})}} \ explicit

FlagsFollowSelection ==
    \A p \in FileTabRuled : _actions[p].enabled = isinstance(select(Nb), "FileTab")

\* C1: when a tab manager call returns, an action ruled by tabtypes=[FileTab]
\* whose flag was never assigned is enabled iff the selected tab is a FileTab.
C1_OnReturn == last.op \in TabOps => FlagsFollowSelection

\* What the code does keep: the flag follows the selection whenever no
\* <<NotebookTabChanged>> event is waiting in the queue, and add_tab of a new
\* tab returns with the queue drained.
FlagsFollowWhenDelivered ==
    /\ pending = 0 => FlagsFollowSelection
    /\ (last.op = "add_tab" /\ last.ret = last.tab.id) => pending = 0

FlagsFollowWhenDelivered_Reached ==
    /\ last.op = "event" /\ pending = 0
    /\ FileTabRuled # {}
    /\ \A p \in FileTabRuled : ~_actions[p].enabled
    /\ isinstance(select(Nb), "Tab") /\ ~isinstance(select(Nb), "FileTab")
    /\ \E i \in DOMAIN tabs : tabs[i].type = "FileTab"

\* C2: the registry holds one action per registered path: the action looked
\* up for a path has that path, with or without a trailing separator, and two
\* registered paths give two actions.
C2_OneActionPerPath ==
    /\ \A p \in DOMAIN _actions :
           /\ get_action(_actions, p).path = p
           /\ get_action(_actions, p \o <<"/">>) = get_action(_actions, p)
    /\ \A p1, p2 \in DOMAIN _actions :
           p1 # p2 => get_action(_actions, p1) # get_action(_actions, p2)
    /\ (last.op = "register" /\ last.raised = "none") =>
           last.req.path \in DOMAIN _actions
    /\ Cardinality(get_all_actions(_actions)) = Cardinality(DOMAIN _actions)

C2_Witness ==
    /\ last.op = "register" /\ last.raised = "RuntimeError"
    /\ Cardinality(DOMAIN _actions) = 3

\* C3: registering a registered path raises and changes nothing: the registry
\* with its flags, the bindings, and no notification.
C3_DuplicateRefused ==
    [][(last'.op = "register" /\ last'.req.path \in DOMAIN _actions) =>
           /\ last'.raised = "RuntimeError"
           /\ _actions' = _actions
           /\ nbBindings' = nbBindings /\ keyBindings' = keyBindings
           /\ emitted' = <<>>]_vars

C3_Witness ==
    /\ last.op = "register" /\ last.raised = "RuntimeError"
    /\ ~_actions[last.req.path].enabled

\* C4: a path with a leading or trailing separator, or both rules at once, is
\* refused before any change: nothing is stored, bound or notified.
C4_MalformedRefused ==
    [][(/\ last'.op = "register"
        /\ \/ startswith(last'.req.path, "/") \/ endswith(last'.req.path, "/")
           \/ (last'.req.tabtypes # None /\ last'.req.filetype_names # None)) =>
           /\ last'.raised \in {"ValueError", "TypeError"}
           /\ last'.req.path \notin DOMAIN _actions'
           /\ _actions' = _actions
           /\ nbBindings' = nbBindings /\ keyBindings' = keyBindings
           /\ emitted' = <<>>]_vars

C4_Witness ==
    /\ last.op = "register" /\ last.raised = "TypeError"
    /\ _actions # <<>>

\* The actions bound to a key.
BoundTo(key) == {p \in DOMAIN _actions : _actions[p].binding = Some(key)}

C6_NotifyPerFlip ==
    [][last'.op = "set_enabled" =>
           LET p == last'.path
               v == last'.value
           IN  IF ~v.isbool
               THEN last'.raised = "TypeError" /\ _actions' = _actions /\ emitted' = <<>>
               ELSE IF v.val = _actions[p].enabled
               THEN last'.raised = "none" /\ _actions' = _actions /\ emitted' = <<>>
               ELSE /\ last'.raised = "none"
                    /\ _actions' = [_actions EXCEPT ![p].enabled = v.val]
                    /\ emitted' = <<[name |-> IF v.val THEN "<<ActionEnabled>>"
                                              ELSE "<<ActionDisabled>>",
                                     data |-> p]>>]_vars

C6_Witness ==
    /\ last.op = "set_enabled" /\ last.raised = "none"
    /\ emitted = <<[name |-> "<<ActionEnabled>>", data |-> last.path]>>

\* C7: a successful registration notifies <<NewAction>> first, with the action
\* in the registry and still enabled; the initial value of enabled is set after
\* it, from the rule and the selected tab.
C7_NewActionBeforeEnablement ==
    (last.op = "register" /\ last.raised = "none") =>
        LET p == last.req.path
            ruled == {i \in DOMAIN nbBindings : nbBindings[i].path = p}
        IN  /\ Len(emitted) >= 1
            /\ emitted[1].name = "<<NewAction>>" /\ emitted[1].data = p
            /\ emitted[1].seen.registered /\ emitted[1].seen.enabled
            /\ \A i \in ruled : _actions[p].enabled = RuleValue(nbBindings[i], Nb)
            /\ ruled = {} => _actions[p].enabled
            /\ IF _actions[p].enabled THEN Len(emitted) = 1
               ELSE /\ Len(emitted) = 2
                    /\ emitted[2] = [name |-> "<<ActionDisabled>>", data |-> p]

C7_Witness ==
    /\ last.op = "register" /\ last.raised = "none"
    /\ Len(emitted) = 2 /\ ~_actions[last.req.path].enabled

\* The digest of a text: MD5 of the whole text in the configured encoding.
Digest(text, enc) == hexdigest(encode(text, enc))

\* C8: is_saved() right after mark_saved() returns true, and in general it
\* returns true exactly when the digest of the text now equals the digest
\* stored by the last mark_saved().
C8_SavedIffDigestsEqual ==
    [][last'.op = "is_saved" =>
           /\ last'.ret <=> (Digest(textwidget, encoding) = _save_hash)
           /\ last.op = "mark_saved" => last'.ret]_vars

C8_Witness ==
    /\ last.op = "is_saved" /\ last.ret
    /\ textwidget # <<>> /\ textwidget = savedText
    /\ _save_hash # Digest(<<>>, encoding)

\* C9: once the text differs from the text of the last mark_saved(),
\* is_saved() returns false.
C9_ChangeDetected ==
    (last.op = "is_saved" /\ textwidget # savedText) => ~last.ret

\* The tab and an open tab are FileTabs saved to the same file.
SameFile(a, b) ==
    /\ a.type = "FileTab" /\ b.type = "FileTab"
    /\ a.path # None /\ b.path # None
    /\ FileOf(a.path[1]) = FileOf(b.path[1])

\* C10: add_tab of a tab equivalent to an open one inserts nothing, notifies
\* nothing and returns the open tab; it selects that tab when asked to, and
\* leaves the selection alone otherwise.
C10_NoDuplicateTab ==
    [][(last'.op = "add_tab" /\ \E i \in DOMAIN tabs : SameFile(last'.tab, tabs[i])) =>
           /\ tabs' = tabs
           /\ Len(tabs') = Len(tabs)
           /\ emitted' = <<>>
           /\ \E i \in DOMAIN tabs : SameFile(last'.tab, tabs[i]) /\ last'.ret = tabs[i].id
           /\ last'.ret # last'.tab.id
           /\ IF last'.sel THEN current' = IndexOf(tabs, last'.ret)
              ELSE current' = current]_vars

C10_Witness ==
    /\ last.op = "add_tab" /\ last.sel /\ last.ret # last.tab.id
    /\ Len(tabs) = 2 /\ tabs[current].id = last.ret
    /\ tabs[current].path # last.tab.path
    /\ pending > 0

\* The <<NewTab>> notifications among the notifications of the last operation.
NewTabEvents(events) == SelectSeq(events, LAMBDA e : e.name = "<<NewTab>>")

\* C11: add_tab of a tab equivalent to no open tab appends it after the
\* others, which keep their places, selects it when asked to, returns it, and
\* emits one <<NewTab>> carrying it, whose handlers find the tab in the
\* manager, selected if that was asked.
C11_AppendsAndNotifies ==
    [][(last'.op = "add_tab" /\ \A i \in DOMAIN tabs : ~SameFile(last'.tab, tabs[i])) =>
           /\ tabs' = Append(tabs, last'.tab)
           /\ last'.sel => current' = Len(tabs')
           /\ last'.ret = last'.tab.id
           /\ Len(NewTabEvents(emitted')) = 1
           /\ LET e == NewTabEvents(emitted')[1]
              IN  /\ e.data = last'.tab.id
                  /\ e = emitted'[Len(emitted')]
                  /\ e.seen.tabs = [i \in DOMAIN tabs' |-> tabs'[i].id]
                  /\ last'.sel => e.seen.selected = last'.tab.id]_vars

C11_Witness ==
    /\ last.op = "add_tab" /\ last.sel /\ last.ret = last.tab.id
    /\ Len(tabs) = 2 /\ current = 2 /\ tabs[2] = last.tab
    /\ tabs[1].type = "FileTab" /\ tabs[1].path # None
    /\ last.tab.type = "FileTab" /\ last.tab.path = None
    /\ Len(emitted) >= 2

\* C13: select_another_tab(diff) returns false on an empty manager; with the
\* selected tab at place i of n it selects the tab at i+diff and returns true
\* when that place exists, and otherwise returns false and leaves the
\* selection alone.  The order of the tabs never changes.
C13_SelectsNeighbourNoWrap ==
    [][last'.op = "select_another_tab" =>
           /\ tabs' = tabs
           /\ IF tabs # <<>> /\ current + last'.diff \in DOMAIN tabs
              THEN last'.ret /\ current' = current + last'.diff
              ELSE ~last'.ret /\ current' = current]_vars

C13_Witness ==
    /\ last.op = "select_another_tab" /\ last.ret /\ last.diff = -1
    /\ Len(tabs) = 2 /\ current = 1 /\ pending > 0

\* The sequence with the elements at places i and j exchanged.
Swapped(seq, i, j) ==
    [k \in DOMAIN seq |-> IF k = i THEN seq[j] ELSE IF k = j THEN seq[i] ELSE seq[k]]

\* C14: move_selected_tab(diff) with the selected tab at place i exchanges the
\* tabs at i and i+diff when that place exists, keeps the same tab selected,
\* now at i+diff, and returns true; at a boundary or on an empty manager it
\* returns false and changes neither the order nor the selection.
C14_SwapsWithNeighbour ==
    [][last'.op = "move_selected_tab" =>
           IF tabs # <<>> /\ current + last'.diff \in DOMAIN tabs
           THEN /\ last'.ret
                /\ tabs' = Swapped(tabs, current, current + last'.diff)
                /\ current' = current + last'.diff
                /\ tabs'[current'] = tabs[current]
           ELSE ~last'.ret /\ tabs' = tabs /\ current' = current]_vars

C14_Witness ==
    /\ last.op = "move_selected_tab" /\ last.ret /\ last.diff = -1
    /\ Len(tabs) = 2 /\ current = 1 /\ pending = 2

\* C12: no tab is in the manager twice, the selection is none or a tab of
\* the manager, and it is none exactly when the manager is empty.
C12_DistinctTabsValidSelection ==
    /\ \A i, j \in DOMAIN tabs : tabs[i].id = tabs[j].id => i = j
    /\ current \in 0..Len(tabs)
    /\ current = 0 <=> tabs = <<>>

C12_Witness ==
    /\ last.op = "click_close" /\ last.closed # <<>>
    /\ Len(tabs) = 1 /\ current = 1 /\ pending > 0

\* The identities of the tabs of a sequence.
Ids(ts) == {ts[i].id : i \in DOMAIN ts}

C16_ClosedOnlyAfterCheck ==
    [][last'.op \in {"click_close", "close_selected_tab", "quit"} =>
           LET asked == {last'.checked[k] : k \in DOMAIN last'.checked}
           IN  /\ Ids(tabs) \ Ids(tabs') \subseteq {c.tab : c \in {a \in asked : a.ret = "True"}}
               /\ {c.tab : c \in {a \in asked : a.ret # "True"}} \subseteq Ids(tabs')]_vars

C16_Witness ==
    /\ last.op = "quit" /\ last.destroyed /\ Len(last.closed) = 2
    /\ \E k \in DOMAIN emitted : emitted[k].name = "askyesnocancel"

-----------------------------------------------------------------------------
\* Saving to the file system: utils.backup_open and the writing in FileTab.save.

\* The most '-backup' files that lie next to a file before a save.
MaxBackups == 1

\* os.path.splitext of the paths.
splitext(p) ==
    CASE p = "a.txt" -> <<"a", ".txt">>
      [] p = "./a.txt" -> <<"./a", ".txt">>

\* The directory entry a name without its extension belongs to: './a' is 'a'.
normpath(name) == CASE name = "a" -> "a" [] name = "./a" -> "a"

\* The file a path names: the name, the number of '-backup' added to it, the
\* extension.  Two spellings of one file give one file name.
FileName(p) ==
    [name |-> normpath(splitext(p)[1]), backups |-> 0, ext |-> splitext(p)[2]]

\* os.path.exists
exists(fs, f) == f \in DOMAIN fs

\* The file system after a file got the bytes (created when it is not there).
WriteFile(fs, f, bytes) == [g \in DOMAIN fs \cup {f} |-> IF g = f THEN bytes ELSE fs[g]]

\* os.remove
remove(fs, f) == [g \in DOMAIN fs \ {f} |-> fs[g]]

\* shutil.copy
copy(fs, src, dst) == WriteFile(fs, dst, fs[src])

\* A variant of move that leaves the source where it is.
moveKeepsSource(fs, src, dst) == WriteFile(fs, dst, fs[src])

\* shutil.move within one directory: os.rename.
move(fs, src, dst) == remove(WriteFile(fs, dst, fs[src]), src)

\* backup_open's search for the path of the backup: '-backup' is added to the
\* name while a file of that name exists.
RECURSIVE backuppath(_, _)
backuppath(fs, f) ==
    IF exists(fs, f) THEN backuppath(fs, [f EXCEPT !.backups = @ + 1]) ELSE f

\* Whether str.encode(encoding), with errors='strict', has the character.
Encodable(ch, enc) == ch # "e-acute" \/ enc = "UTF-8"

\* The body of save's with statement: f.write(chunk) of every chunk.  Gives
\* the bytes handed to the file and "UnicodeEncodeError" when a chunk has a
\* character the encoding lacks: that chunk and the later ones are not written.
RECURSIVE write_chunks(_, _, _)
write_chunks(chunks, enc, i) ==
    IF i > Len(chunks) THEN [bytes |-> <<>>, raised |-> "ok"]
    ELSE IF \E k \in DOMAIN chunks[i] : ~Encodable(chunks[i][k], enc)
    THEN [bytes |-> <<>>, raised |-> "UnicodeEncodeError"]
    ELSE LET rest == write_chunks(chunks, enc, i + 1)
         IN  [rest EXCEPT !.bytes = encode(chunks[i], enc) \o @]

\* What the operating system can do to a save: nothing, fail shutil.copy, fail
\* open(), fail a write() of the body, or fail the flush of the bytes the file
\* object still buffers when it is finalized.  backup_open never closes the
\* file it yields: the bytes not flushed by then reach the disk when save
\* returns and its local f is finalized, and an error of that flush is dropped.
Faults(fs, f, body) ==
    {"none", "open"}
    \cup (IF exists(fs, f) THEN {"copy"} ELSE {})
    \cup (IF body.bytes # <<>> THEN {"write", "close"} ELSE {})

\* utils.backup_open(path, 'w') around the body.  k is the number of bytes of
\* the body that reached the disk when the with statement is left (and of the
\* backup when the copy fails).  Gives the file system when the with statement
\* is left (atexit), the file system once the file object is finalized
\* (files), the exception that leaves the with statement, and the backup path.
backup_open(fs, f, body, fault, k) ==
    LET bp == backuppath(fs, f)
        had == exists(fs, f)
        Prefix(bytes) == SubSeq(bytes, 1, IF k < Len(bytes) THEN k ELSE Len(bytes))
        err == IF fault = "write" THEN "OSError" ELSE body.raised
        backed == IF had THEN copy(fs, f, bp) ELSE fs
        written == WriteFile(backed, f, Prefix(body.bytes))
        restored == IF had THEN move(written, bp, f) ELSE written
        left == IF had THEN remove(written, bp) ELSE written
        final == IF fault = "close" THEN left ELSE WriteFile(left, f, body.bytes)
        Res(atexit, fin, raised) ==
            [atexit |-> atexit, files |-> fin, raised |-> raised,
             backuppath |-> IF had THEN Some(bp) ELSE None]
    IN  CASE fault = "copy" ->
               LET part == IF k = 0 THEN fs ELSE WriteFile(fs, bp, Prefix(fs[f]))
               IN  Res(part, part, "OSError")
          [] fault = "open" ->
               LET back == IF had THEN move(backed, bp, f) ELSE fs
               IN  Res(back, back, "OSError")
          [] fault \notin {"copy", "open"} /\ err # "ok" -> Res(restored, restored, err)
          [] OTHER -> Res(left, final, "ok")

\* The most bytes of a text that reach the disk before a failure.
MaxFlushed == 1

\* The texts the user types before saving.
SaveTexts == {<<>>, <<"?">>, <<"e-acute">>}

\* The content of a file that the editor did not write.
Foreign == <<65>>

\* The user replaces the text of the tab.
SetText(t) ==
    /\ t # textwidget
    /\ textwidget' = t
    /\ emitted' = <<>>
    /\ last' = [op |-> "edit"]
    /\ UNCHANGED <<nbVars, regVars, _save_hash, encoding, savedText, diskVars, unsaved, owed>>

\* The answers to the file dialog: none (cancelled) or a path, which is
\* another spelling of the file a.txt.
Dialogs == {"", "./a.txt"}

\* Whether the notifications of a save begin with <<PathChanged>>, which the
\* tab's _update_title and _update_status handle.
PathChanged(events) == events # <<>> /\ events[1].name = "<<PathChanged>>"

\* The state after the save of SaveStep: w is what the file system did, r what
\* save() or save_as() did to the tab.
SaveDone(op, asks, dialog, fault, w, r) ==
    /\ files' = w.files
    /\ _path' = r.tab.path
    /\ _save_hash' = IF r.marked THEN mark_saved(textwidget, encoding, _save_hash)
                     ELSE _save_hash
    /\ savedText' = IF r.marked THEN textwidget ELSE savedText
    /\ _title' = IF r.marked \/ PathChanged(r.events)
                 THEN _update_title(textwidget, encoding, _save_hash', _path')
                 ELSE _title
    /\ _status' = IF PathChanged(r.events)
                  THEN _update_status(_path')
                  ELSE _status
    /\ emitted' = r.events
    /\ last' = [op |-> op, asked |-> asks, dialog |-> dialog, fault |-> fault,
                raised |-> w.raised, ret |-> r.ret, atexit |-> w.atexit,
                backuppath |-> w.backuppath]
    /\ UNCHANGED <<nbVars, regVars, textwidget, encoding, unsaved, owed>>

\* FileTab.save (op = "save") or FileTab.save_as (op = "save_as") of the tab.
\* dialog answers asksaveasfilename when it is asked; fault and k are what the
\* file system does to the writing.
SaveStep(op, dialog, fault, k) ==
    LET tab == [id |-> 1, type |-> "FileTab", path |-> _path]
        asks == op = "save_as" \/ _path = None
        target == IF ~asks THEN _path ELSE IF dialog = "" THEN None ELSE Some(dialog)
        body == write_chunks(iter_chunks(textwidget, ChunkLines, 1), encoding, 1)
        w == IF target = None
             THEN [atexit |-> files, files |-> files, raised |-> "ok", backuppath |-> None]
             ELSE backup_open(files, FileName(target[1]), body, fault, k)
        env == [answer |-> "yes", dialog |-> dialog, io |-> w.raised]
        r == IF op = "save" THEN save(tab, env) ELSE save_as(tab, env)
    IN  /\ ~asks => dialog = ""
        /\ target = None => fault = "none" /\ k = 0
        /\ target # None =>
             /\ fault \in Faults(files, FileName(target[1]), body)
             /\ k \in 0..Len(body.bytes)
             /\ fault = "open" => k = 0
             /\ fault = "close" => k < Len(body.bytes)
             /\ fault = "copy" /\ k > 0 => Cardinality(DOMAIN files) <= MaxBackups
        /\ SaveDone(op, asks, dialog, fault, w, r)

\* FileTab.save
Save(dialog, fault, k) == SaveStep("save", dialog, fault, k)

\* FileTab.save_as
SaveAs(dialog, fault, k) == SaveStep("save_as", dialog, fault, k)

\* A FileTab with no text yet, new or of the path a.txt; the file a.txt is
\* there or not, and so are older backups of it.
InitSave ==
    /\ tabs = <<>> /\ current = 0 /\ pending = 0
    /\ _actions = <<>> /\ nbBindings = <<>> /\ keyBindings = <<>> /\ explicit = {}
    /\ emitted = <<>> /\ last = [op |-> "init"]
    /\ unsaved = {} /\ owed = {}
    /\ textwidget = <<>> /\ savedText = <<>>
    /\ encoding \in Encodings
    /\ _save_hash = mark_saved(<<>>, encoding, None)
    /\ _path \in {None, Some("a.txt")}
    /\ _loaded_json = <<>> /\ _var_cache = <<>> /\ errorvar = <<>>
    /\ fixedfont = [family |-> "Courier", size |-> 10] /\ settings_json = <<>>
    /\ content = <<>> /\ _tokens = <<>> /\ tokenizedFrom = <<>>
    /\ _title = _update_title(textwidget, encoding, _save_hash, _path)
    /\ _status = _update_status(_path)
    /\ \E there \in BOOLEAN, old \in SUBSET (1..MaxBackups) :
         files = [g \in (IF there THEN {FileName("a.txt")} ELSE {})
                        \cup {[FileName("a.txt") EXCEPT !.backups = b] : b \in old}
                  |-> Foreign]

NextSave ==
    \/ \E t \in SaveTexts : SetText(t) /\ UNCHANGED <<cfgVars, tokVars, shownVars>>
    \/ \E dialog \in Dialogs, fault \in {"none", "copy", "open", "write", "close"},
          k \in 0..MaxFlushed : Save(dialog, fault, k) /\ UNCHANGED <<cfgVars, tokVars>>
    \/ \E dialog \in Dialogs, fault \in {"none", "copy", "open", "write", "close"},
          k \in 0..MaxFlushed : SaveAs(dialog, fault, k) /\ UNCHANGED <<cfgVars, tokVars>>

SpecSave == InitSave /\ [][NextSave]_vars

-----------------------------------------------------------------------------
\* The destination of the tab's save.
Dest == FileName(_path[1])

\* The bytes a save of the text writes.
NewContent == encode(textwidget, encoding)

\* The files named after the destination with '-backup' added.
Backups(fs) == {g \in DOMAIN fs : g.backups > 0}

\* C18: when the destination exists and open() or the writing raises after
\* the backup was taken, the destination has exactly the content it had, no
\* backup file remains that was not there before, and the error that was
\* raised is the one that leaves backup_open (save shows it in its dialog).
C18_FailureRestoresDestination ==
    [][last'.op = "save" /\ ~last'.asked /\ exists(files, Dest)
       /\ last'.raised # "ok" /\ last'.fault # "copy" =>
           /\ exists(files', Dest) /\ files'[Dest] = files[Dest]
           /\ last'.atexit = files'
           /\ Backups(files') = Backups(files)
           /\ last'.backuppath[1] \notin DOMAIN files'
           /\ last'.raised = (IF last'.fault \in {"open", "write"} THEN "OSError"
                              ELSE "UnicodeEncodeError")
           /\ emitted'[Len(emitted')] = [name |-> "errordialog", data |-> last'.raised]]_vars

\* A save of a text that ascii lacks has failed over a file the editor had
\* not written, next to an older backup, and the file has its content.
C18_Witness ==
    /\ last.op = "save" /\ ~last.asked /\ last.raised = "UnicodeEncodeError"
    /\ exists(files, Dest) /\ files[Dest] = Foreign
    /\ last.backuppath = Some([Dest EXCEPT !.backups = 2])
    /\ Backups(files) = {[Dest EXCEPT !.backups = 1]}

\* The number of error dialogs among the notifications of a step.
ErrorDialogs(events) == Cardinality({k \in DOMAIN events : events[k].name = "errordialog"})

\* C19: when the destination exists and the body ends without an error, the
\* backup path was the path of no file, and afterwards the backup is deleted
\* and the one file touched is the destination, which holds the new content:
\* both when the with statement is left and once save has returned.
C19_SuccessLeavesOnlyNewContent ==
    [][last'.op = "save" /\ ~last'.asked /\ exists(files, Dest) /\ last'.raised = "ok" =>
           /\ last'.backuppath[1] \notin DOMAIN files
           /\ last'.atexit = WriteFile(files, Dest, NewContent)
           /\ files' = WriteFile(files, Dest, NewContent)]_vars

\* What of C19 the code does: the backup path is the path of no file, the backup
\* is deleted, and no file but the destination differs afterwards.
BackupDeletedOnSuccess ==
    [][last'.op = "save" /\ ~last'.asked /\ exists(files, Dest) /\ last'.raised = "ok" =>
           /\ last'.backuppath[1] \notin DOMAIN files
           /\ DOMAIN last'.atexit = DOMAIN files /\ DOMAIN files' = DOMAIN files
           /\ \A g \in DOMAIN files \ {Dest} :
                files'[g] = files[g] /\ last'.atexit[g] = files[g]]_vars

\* C20: a save that meets a failure of the file system or of the encoding
\* leaves the digest and is_saved() as they were, shows one error dialog and
\* does not return True.
C20_FailedSaveKeepsDirtyState ==
    [][last'.op = "save" /\ ~last'.asked /\ (last'.fault # "none" \/ last'.raised # "ok") =>
           /\ _save_hash' = _save_hash
           /\ is_saved(textwidget', encoding', _save_hash')
                = is_saved(textwidget, encoding, _save_hash)
           /\ ErrorDialogs(emitted') = 1
           /\ last'.ret # "True"]_vars

\* What of C20 the code does: the same for a failure that is raised within
\* save's with statement.
RaisedErrorKeepsDirtyState ==
    [][last'.op = "save" /\ ~last'.asked /\ last'.raised # "ok" =>
           /\ _save_hash' = _save_hash
           /\ is_saved(textwidget', encoding', _save_hash')
                = is_saved(textwidget, encoding, _save_hash)
           /\ ErrorDialogs(emitted') = 1
           /\ last'.ret = "None"]_vars

\* A failed save of an unsaved text has left the tab unsaved.
RaisedErrorKeepsDirtyState_Reached ==
    /\ last.op = "save" /\ ~last.asked /\ last.raised = "OSError" /\ last.fault = "write"
    /\ ~is_saved(textwidget, encoding, _save_hash)

\* C21: a save of a tab with a path that meets no failure returns True, the
\* file of the path holds exactly the text (every character of it, in the
\* configured encoding), the digest is the one of the text, and is_saved()
\* is true afterwards.
C21_SuccessfulSaveWritesText ==
    [][last'.op = "save" /\ ~last'.asked /\ last'.fault = "none" /\ last'.raised = "ok" =>
           /\ last'.ret = "True"
           /\ \A i \in DOMAIN textwidget : Encodable(textwidget[i], encoding)
           /\ exists(files', Dest) /\ files'[Dest] = NewContent
           /\ _save_hash' = _get_hash(textwidget', encoding')
           /\ is_saved(textwidget', encoding', _save_hash')
           /\ _path' = _path /\ textwidget' = textwidget]_vars

\* An edited text with a character of two bytes has been saved over a file
\* that the editor had not written.
C21_Witness ==
    /\ last.op = "save" /\ ~last.asked /\ last.fault = "none" /\ last.ret = "True"
    /\ last.backuppath # None
    /\ textwidget = <<"e-acute">> /\ files[Dest] = <<195, 169>>
    /\ is_saved(textwidget, encoding, _save_hash)

\* C22: save() of a tab without a path asks for a path.  When the dialog is
\* cancelled no file changes, the path stays None, the digest and is_saved()
\* are as before, nothing is shown and the result is False.  When a path is
\* given it becomes the tab's path (<<PathChanged>> is generated), the text is
\* then saved to it (<<Save>> is generated; without a failure the file of the
\* path holds the text and the tab is saved) and the result is True.
C22_SaveWithoutPathAsks ==
    [][last'.op = "save" /\ _path = None =>
         /\ last'.asked
         /\ last'.dialog = "" =>
              /\ files' = files /\ _path' = None
              /\ _save_hash' = _save_hash
              /\ is_saved(textwidget', encoding', _save_hash')
                   = is_saved(textwidget, encoding, _save_hash)
              /\ emitted' = <<>>
              /\ last'.ret = "False"
         /\ last'.dialog # "" =>
              /\ _path' = Some(last'.dialog)
              /\ \E i, j \in DOMAIN emitted' :
                   /\ i < j
                   /\ emitted'[i].name = "<<PathChanged>>"
                   /\ emitted'[j].name = "<<Save>>"
              /\ last'.ret = "True"
              /\ last'.fault = "none" /\ last'.raised = "ok" =>
                   /\ files' = WriteFile(files, FileName(last'.dialog), NewContent)
                   /\ is_saved(textwidget', encoding', _save_hash')]_vars

\* A new file with text has been saved to the path given in the dialog.
C22_Witness ==
    /\ last.op = "save" /\ last.asked /\ last.dialog = "./a.txt" /\ last.fault = "none"
    /\ _path = Some("./a.txt")
    /\ textwidget = <<"?">> /\ files[Dest] = <<63>>
    /\ last.ret = "True"

\* A new file with text was to be saved and the dialog was cancelled.
C22_Cancelled ==
    /\ last.op = "save" /\ last.asked /\ last.dialog = "" /\ last.ret = "False"
    /\ _path = None /\ textwidget = <<"?">>
    /\ ~is_saved(textwidget, encoding, _save_hash)

-----------------------------------------------------------------------------
\* Opening and saving files of tabs in the manager: _run.new_file,
\* _run.open_files and the callbacks of File/Save and File/Save As....

\* The most paths chosen in one file dialog of File/Open.
MaxOpen == 2

\* How reading a file ends: FileTab.open_file returns a tab or raises (an
\* OSError stands for a UnicodeError as well: open_files treats them alike).
OpenResults == {"ok", "OSError"}

\* What askopenfilenames gives and what reading each path does.
OpenRequests ==
    UNION {[1..n -> [path : FilePaths, result : OpenResults]] : n \in 0..MaxOpen}

\* _run.open_files from the i-th path on: a path that cannot be read shows an
\* error dialog and the loop goes on; a tab of a path that was read is added.
RECURSIVE open_files(_, _, _, _, _)
open_files(acts, closures, nb, reqs, i) ==
    IF i > Len(reqs) THEN [nb |-> nb, acts |-> acts, events |-> <<>>]
    ELSE IF reqs[i].result # "ok"
    THEN LET rest == open_files(acts, closures, nb, reqs, i + 1)
         IN  [rest EXCEPT !.events =
                  <<[name |-> "errordialog", data |-> reqs[i].result]>> \o @]
    ELSE LET tab == [id |-> FreshId(nb.tabs), type |-> "FileTab",
                     path |-> Some(reqs[i].path)]
             r == add_tab(acts, closures, nb, tab, TRUE)
             rest == open_files(r.acts, closures, r.nb, reqs, i + 1)
         IN  [rest EXCEPT !.events = r.events \o @]

\* File/New File
NewFile ==
    LET tab == [id |-> FreshId(tabs), type |-> "FileTab", path |-> None]
        r == add_tab(_actions, nbBindings, Nb, tab, TRUE)
    IN  /\ Len(r.nb.tabs) <= MaxTabs
        /\ SetNb(r.nb)
        /\ _actions' = r.acts
        /\ emitted' = r.events
        /\ last' = [op |-> "new_file", tab |-> tab.id]
        /\ UNCHANGED <<nbBindings, keyBindings, explicit, fileVars, unsaved>>

\* File/Open
OpenFiles(reqs) ==
    LET r == open_files(_actions, nbBindings, Nb, reqs, 1)
    IN  /\ Len(r.nb.tabs) <= MaxTabs
        /\ SetNb(r.nb)
        /\ _actions' = r.acts
        /\ emitted' = r.events
        /\ last' = [op |-> "open_files", paths |-> Len(reqs),
                    failed |-> Cardinality({i \in DOMAIN reqs : reqs[i].result # "ok"})]
        /\ UNCHANGED <<nbBindings, keyBindings, explicit, fileVars, unsaved>>

\* The callbacks of File/Save (op = "save") and of File/Save As... (op =
\* "save_as"): m_tab_manager.select().save() and .save_as().  env.dialog
\* answers the file dialog when it is asked, env.io is how the writing ends.
SaveSelected(op, env) ==
    IF current = 0 \/ ~isinstance(select(Nb), "FileTab")
    THEN /\ env = [answer |-> "yes", dialog |-> "", io |-> "ok"]
         /\ emitted' = <<>>
         /\ last' = [op |-> op, tab |-> 0, raised |-> "AttributeError"]
         /\ UNCHANGED <<nbVars, regVars, fileVars, unsaved>>
    ELSE LET tab == tabs[current]
             asks == op = "save_as" \/ tab.path = None
             r == IF op = "save" THEN save(tab, env) ELSE save_as(tab, env)
         IN  /\ ~asks => env.dialog = ""
             /\ asks /\ env.dialog = "" => env.io = "ok"
             /\ tabs' = [tabs EXCEPT ![current] = r.tab]
             /\ unsaved' = IF r.marked THEN unsaved \ {tab.id} ELSE unsaved
             /\ emitted' = r.events
             /\ last' = [op |-> op, tab |-> tab.id, asked |-> asks, io |-> env.io,
                         ret |-> r.ret, raised |-> "none"]
             /\ UNCHANGED <<current, pending, regVars, fileVars>>

\* The answers and outcomes of a save.
SaveEnvs ==
    {[answer |-> "yes", dialog |-> d, io |-> o] :
        d \in {""} \cup FilePaths, o \in {"ok", "OSError", "UnicodeEncodeError"}}

(***************************************************************************)
(* SpecOpen: files are opened in tabs, edited, saved and saved under       *)
(* another path, and tabs are closed, selected and moved.  The user acts   *)
(* when no <<NotebookTabChanged>> is queued.                               *)
(***************************************************************************)
NextOpen ==
    \/ Running /\ pending = 0 /\ NewFile /\ UNCHANGED <<owed, diskVars, cfgVars, tokVars, shownVars>>
    \/ Running /\ pending = 0 /\ \E reqs \in OpenRequests :
           OpenFiles(reqs) /\ UNCHANGED <<owed, diskVars, cfgVars, tokVars, shownVars>>
    \/ Running /\ pending = 0 /\ \E op \in {"save", "save_as"}, env \in SaveEnvs :
           SaveSelected(op, env) /\ UNCHANGED <<owed, diskVars, cfgVars, tokVars, shownVars>>
    \/ Running /\ pending = 0 /\ \E i \in DOMAIN tabs : CloseTab(tabs[i].id) /\ UNCHANGED <<owed, diskVars, cfgVars, tokVars, shownVars>>
    \/ Running /\ pending = 0 /\ \E i \in DOMAIN tabs : Select(tabs[i].id) /\ UNCHANGED <<owed, diskVars, cfgVars, tokVars, shownVars>>
    \/ Running /\ pending = 0 /\ \E diff \in {-1, 1} :
           MoveSelectedTab(diff) /\ UNCHANGED <<owed, diskVars, cfgVars, tokVars, shownVars>>
    \/ Running /\ pending = 0 /\ \E i \in DOMAIN tabs, dirty \in BOOLEAN :
           EditTab(tabs[i].id, dirty) /\ UNCHANGED <<owed, diskVars, cfgVars, tokVars, shownVars>>
    \/ Running /\ DispatchTabChanged /\ UNCHANGED <<owed, diskVars, cfgVars, tokVars, shownVars>>

SpecOpen == Init /\ [][NextOpen]_vars

\* Whether the operation of the step met a failure of file I/O: a File/Open
\* none of whose files could be read, or a save whose writing failed.
IOFailure(l) ==
    \/ l.op = "open_files" /\ l.paths > 0 /\ l.failed = l.paths
    \/ l.op \in {"save", "save_as"} /\ l.raised = "none" /\ l.io # "ok"

\* C23: a failure of file I/O during an open, a save or a save_as leaves the
\* tabs of the manager, with their paths, the selection and every tab's saved
\* state as they were before the operation.
C23_IOFailureKeepsState ==
    [][IOFailure(last') => tabs' = tabs /\ current' = current /\ unsaved' = unsaved]_vars

\* What of C23 the code does: the tabs, their order, the selection and the
\* saved states are as before, and so is every path but that of the selected
\* tab when the file dialog was asked.
IOFailureKeepsAllButAskedPath ==
    [][IOFailure(last') =>
           /\ current' = current /\ unsaved' = unsaved
           /\ DOMAIN tabs' = DOMAIN tabs
           /\ \A i \in DOMAIN tabs :
                /\ tabs'[i].id = tabs[i].id /\ tabs'[i].type = tabs[i].type
                /\ tabs'[i].path # tabs[i].path =>
                     i = current /\ last'.op \in {"save", "save_as"} /\ last'.asked]_vars

\* A File/Open of two files that cannot be read has left two open tabs alone.
IOFailureKeepsAllButAskedPath_Reached ==
    /\ last.op = "open_files" /\ last.paths = 2 /\ last.failed = 2
    /\ Len(tabs) = 2 /\ ErrorDialogs(emitted) = 2

\* C30: no two tabs of the manager are equivalent.
C30_NoTwoTabsOfOneFile ==
    \A i, j \in DOMAIN tabs : i # j => ~equivalent(tabs[i], tabs[j])

\* The tabs that add_tab has compared: those of the manager and the tab of
\* the last add_tab (which was not added when an open tab is equivalent).
Compared == Range(tabs) \cup (IF last.op = "add_tab" THEN {last.tab} ELSE {})

-----------------------------------------------------------------------------
\* Actions ruled by the name of the selected file's type.

\* Registrations with filetype_names: one names the type every FileTab has,
\* one names a type no FileTab has.
FiletypeRequests ==
    {[path |-> <<"Edit", "/", "Find">>, kind |-> "command",
      binding |-> None, var |-> None,
      tabtypes |-> None, filetype_names |-> Some({"Plain Text"})],
     [path |-> <<"Run", "/", "Run">>, kind |-> "command",
      binding |-> None, var |-> None,
      tabtypes |-> None, filetype_names |-> Some({"Python"})]}

(***************************************************************************)
(* SpecFiletype: actions with a filetype_names rule are registered before  *)
(* and after tabs are added, closed and selected; the queued               *)
(* <<NotebookTabChanged>> events are delivered at any moment.  No code of  *)
(* the program changes the file type of a FileTab or generates             *)
(* <<FiletypeChanged>>, so the handlers that on_new_tab binds never run.   *)
(***************************************************************************)
NextFiletype ==
    \/ \E req \in FiletypeRequests : Register(req) /\ UNCHANGED <<owed, diskVars, cfgVars, tokVars, shownVars>>
    \/ \E desc \in NewTabs, sel \in BOOLEAN : AddTab(desc, sel) /\ UNCHANGED <<owed, diskVars, cfgVars, tokVars, shownVars>>
    \/ \E i \in DOMAIN tabs : CloseTab(tabs[i].id) /\ UNCHANGED <<owed, diskVars, cfgVars, tokVars, shownVars>>
    \/ \E i \in DOMAIN tabs : Select(tabs[i].id) /\ UNCHANGED <<owed, diskVars, cfgVars, tokVars, shownVars>>
    \/ \E diff \in {-1, 1} : SelectAnotherTab(diff) /\ UNCHANGED <<owed, diskVars, cfgVars, tokVars, shownVars>>
    \/ DispatchTabChanged /\ UNCHANGED <<owed, diskVars, cfgVars, tokVars, shownVars>>

SpecFiletype == Init /\ [][NextFiletype]_vars

\* The registered rules with filetype_names whose action no caller has flipped.
FiletypeRuled ==
    {k \in DOMAIN nbBindings :
        nbBindings[k].filetype_names # None /\ nbBindings[k].path \notin explicit}

\* Whether the selected tab is a FileTab whose file type has one of the names.
SelectedFiletypeIn(names) ==
    /\ current # 0
    /\ tabs[current].type = "FileTab"
    /\ filetype(tabs[current]).name \in names

FiletypeFlagsFollow ==
    \A k \in FiletypeRuled :
        _actions[nbBindings[k].path].enabled
            = SelectedFiletypeIn(nbBindings[k].filetype_names[1])

\* C25: an action registered with filetype_names, whose flag no caller has
\* assigned, is enabled exactly when the selected tab is a FileTab whose file
\* type has one of the names: after every registration and every change of
\* the selection, for tabs added before and after the registration.
C25_FiletypeRuleFollows == FiletypeFlagsFollow

\* What of C25 the code does: the flag is right whenever no
\* <<NotebookTabChanged>> event waits in the queue.
FiletypeFlagsFollowWhenDelivered == pending = 0 => FiletypeFlagsFollow

\* An action of the file type of the selected FileTab, which was added before
\* the action was registered, is enabled, and one of another type is not.
FiletypeFlagsFollowWhenDelivered_Reached ==
    /\ pending = 0 /\ current # 0 /\ tabs[current].type = "FileTab"
    /\ last.op = "register" /\ Len(nbBindings) = 2
    /\ _actions[<<"Edit", "/", "Find">>].enabled
    /\ ~_actions[<<"Run", "/", "Run">>].enabled

-----------------------------------------------------------------------------
\* settings: the section General with the options font_family, font_size and
\* encoding, on a record c = [json, vars, errorvar, font] of _loaded_json, the
\* tkinter variables of get_var, the error flags and TkFixedFont.

Section == "General"
Keys == {"font_family", "font_size", "encoding"}

\* The defaults of add_option.
Default(key) ==
    CASE key = "font_family" -> "Courier"
      [] key = "font_size" -> "10"
      [] key = "encoding" -> "UTF-8"

\* The font families of the system, and str.casefold of the names.
FontFamilies == {"Courier", "Mono"}
casefold(text) ==
    CASE text \in {"Courier", "courier"} -> "courier"
      [] text \in {"Mono", "mono"} -> "mono"
      [] OTHER -> text

\* The texts that are integers, and int() of them.
IsInt(text) == text \in {"2", "10", "12", "1001"}
int(text) == CASE text = "2" -> 2 [] text = "10" -> 10 [] text = "12" -> 12
               [] text = "1001" -> 1001

\* The range of add_spinbox('font_size', 3, 1000, ...).
SpinMin == 3
SpinMax == 1000

\* Whether the validator connected to the key raises InvalidValue: the
\* validators of add_combobox (case_sensitive=False) and of add_spinbox, and
\* _validate_encoding (codecs.lookup).
Invalid(key, value) ==
    CASE key = "font_family" -> casefold(value) \notin {casefold(f) : f \in FontFamilies}
      [] key = "font_size" -> int(value) < SpinMin \/ int(value) > SpinMax
      [] key = "encoding" -> value \notin {"UTF-8", "ascii"}

\* The callbacks of a key in the order _init connects them.
Callbacks(key) ==
    CASE key \in {"font_family", "font_size"} -> <<"validator", "var.set", "fixedfont">>
      [] key = "encoding" -> <<"var.set", "validator">>

\* _ConfigSection.__getitem__
getitem(json, key) ==
    IF Section \in DOMAIN json /\ key \in DOMAIN json[Section]
    THEN json[Section][key]
    ELSE Default(key)

\* A variant of StoreValue that replaces the section by the one key.
StoreValueAlone(json, key, value) ==
    [sec \in DOMAIN json \cup {Section} |->
        IF sec = Section THEN key :> value ELSE json[sec]]

\* _loaded_json[self._name][key] = value, and {key: value} as the section
\* when the section is not there.
StoreValue(json, key, value) ==
    [sec \in DOMAIN json \cup {Section} |->
        IF sec # Section THEN json[sec]
        ELSE IF Section \in DOMAIN json THEN (key :> value) @@ json[Section]
        ELSE key :> value]

\* fixedfont.__setitem__('family', value) and fixedfont.__setitem__('size', value)
SetFont(c, key, value) ==
    IF key = "font_family" THEN [c EXCEPT !.font.family = value]
    ELSE [c EXCEPT !.font.size = int(value)]

\* A variant of run_callbacks that leaves the rejected value in place.
RECURSIVE run_callbacksNoRevert(_, _, _, _, _, _)
run_callbacksNoRevert(c, key, value, old_value, i, traced) ==
    IF i > Len(Callbacks(key)) THEN [c |-> c, raised |-> "none"]
    ELSE LET func == Callbacks(key)[i]
         IN  CASE func = "validator" ->
                    IF Invalid(key, value) THEN [c |-> c, raised |-> "InvalidValue"]
                    ELSE run_callbacksNoRevert(c, key, value, old_value, i + 1, traced)
               [] func = "var.set" ->
                    run_callbacksNoRevert(
                        [c EXCEPT !.vars[key] = value,
                                  !.errorvar[key] = IF traced THEN @ ELSE FALSE],
                        key, value, old_value, i + 1, traced)
               [] func = "fixedfont" ->
                    run_callbacksNoRevert(SetFont(c, key, value),
                                          key, value, old_value, i + 1, traced)

\* The loop over info.callbacks in __setitem__, from the i-th callback on.
\* InvalidValue of a callback puts the old value back and is raised again.
\* var.set writes the tkinter variable; its write trace var2config runs unless
\* the assignment comes from that trace itself (Tcl disables the traces of a
\* variable while one of them runs), finds the option equal to the variable
\* and clears the error flag.
RECURSIVE run_callbacks(_, _, _, _, _, _)
run_callbacks(c, key, value, old_value, i, traced) ==
    IF i > Len(Callbacks(key)) THEN [c |-> c, raised |-> "none"]
    ELSE LET func == Callbacks(key)[i]
         IN  CASE func = "validator" ->
                    IF Invalid(key, value)
                    THEN [c |-> [c EXCEPT !.json = StoreValue(@, key, old_value)],
                          raised |-> "InvalidValue"]
                    ELSE run_callbacks(c, key, value, old_value, i + 1, traced)
               [] func = "var.set" ->
                    run_callbacks(
                        [c EXCEPT !.vars[key] = value,
                                  !.errorvar[key] = IF traced THEN @ ELSE FALSE],
                        key, value, old_value, i + 1, traced)
               [] func = "fixedfont" ->
                    run_callbacks(SetFont(c, key, value),
                                  key, value, old_value, i + 1, traced)

\* _ConfigSection.__setitem__
setitem(c, key, value, traced) ==
    LET old_value == getitem(c.json, key)
        c1 == [c EXCEPT !.json = StoreValue(@, key, value)]
    IN  IF value # old_value THEN run_callbacks(c1, key, value, old_value, 1, traced)
        ELSE [c |-> c1, raised |-> "none"]

\* var2config, the write trace of the variable, after the widget wrote text
\* to the variable.
var2config(c, key, text) ==
    LET c0 == [c EXCEPT !.vars[key] = text]
        r == setitem(c0, key, text, TRUE)
    IN  IF key = "font_size" /\ ~IsInt(text) THEN [c0 EXCEPT !.errorvar[key] = TRUE]
        ELSE [r.c EXCEPT !.errorvar[key] = (r.raised = "InvalidValue")]

\* _ConfigSection.reset
reset(c, key) == setitem(c, key, Default(key), FALSE)

\* _do_reset after the user said yes: every option is reset, in the order of
\* add_option.  An InvalidValue would leave the loop; no default raises one.
_do_reset(c) == reset(reset(reset(c, "font_family").c, "font_size").c, "encoding")

\* settings.save: the record on disk afterwards.
save_settings(json, disk) == IF json # <<>> THEN json ELSE disk

\* _init on the record loaded from settings.json: connect() resets an option
\* whose loaded value its validator rejects, the variables get the values and
\* TkFixedFont the size.
_init(loaded) ==
    LET Checked(json, key) ==
            IF Invalid(key, getitem(json, key)) THEN StoreValue(json, key, Default(key))
            ELSE json
        json == Checked(Checked(Checked(loaded, "font_family"), "font_size"), "encoding")
    IN  [json |-> json,
         vars |-> [key \in Keys |-> getitem(json, key)],
         errorvar |-> [key \in Keys |-> FALSE],
         font |-> [family |-> getitem(json, "font_family"),
                   size |-> int(getitem(json, "font_size"))]]

\* The records in settings.json when the program starts: none, and records
\* with keys and a section that this program does not know.
LoadedJsons ==
    {<<>>,
     "Plugin" :> ("x" :> "1"),
     "General" :> ("font_size" :> "12" @@ "theme" :> "dark") @@ "Plugin" :> ("x" :> "1"),
     "General" :> ("encoding" :> "utf-99" @@ "theme" :> "dark")}

\* The values that code assigns and the texts that the user types.
AssignedValues(key) ==
    CASE key = "font_family" -> {"mono", "Comic"}
      [] key = "font_size" -> {"2", "12"}
      [] key = "encoding" -> {"ascii", "utf-99"}
TypedTexts(key) ==
    CASE key = "font_family" -> {"mono", "Comic"}
      [] key = "font_size" -> {"12", "1001", "abc"}
      [] key = "encoding" -> {"ascii", "utf-99"}

Cfg == [json |-> _loaded_json, vars |-> _var_cache, errorvar |-> errorvar, font |-> fixedfont]

SetCfg(c) ==
    /\ _loaded_json' = c.json
    /\ _var_cache' = c.vars
    /\ errorvar' = c.errorvar
    /\ fixedfont' = c.font
    /\ encoding' = getitem(c.json, "encoding")
    /\ emitted' = <<>>
    /\ UNCHANGED <<nbVars, regVars, textwidget, _save_hash, savedText, diskVars,
                   tokVars, shownVars, unsaved, owed, settings_json>>

\* section[key] = value
Assign(key, value) ==
    LET r == setitem(Cfg, key, value, FALSE)
    IN  /\ SetCfg(r.c)
        /\ last' = [op |-> "setitem", key |-> key, value |-> value, raised |-> r.raised]

\* The user changes the field of the key in the settings dialog.
Type(key, text) ==
    /\ text # _var_cache[key]
    /\ SetCfg(var2config(Cfg, key, text))
    /\ last' = [op |-> "type", key |-> key, value |-> text, raised |-> "none"]

\* section.reset(key)
Reset(key) ==
    LET r == reset(Cfg, key)
    IN  /\ SetCfg(r.c)
        /\ last' = [op |-> "reset", key |-> key, value |-> Default(key), raised |-> r.raised]

\* The Reset button of the dialog, answered with yes.
DoReset ==
    LET r == _do_reset(Cfg)
    IN  /\ SetCfg(r.c)
        /\ last' = [op |-> "_do_reset", key |-> "all", value |-> "", raised |-> r.raised]

\* settings.save
SaveSettings ==
    /\ settings_json' = save_settings(_loaded_json, settings_json)
    /\ emitted' = <<>>
    /\ last' = [op |-> "save_settings", key |-> "none", value |-> "", raised |-> "none"]
    /\ UNCHANGED <<nbVars, regVars, fileVars, diskVars, tokVars, shownVars, unsaved, owed,
                   _loaded_json, _var_cache, errorvar, fixedfont>>

InitSettings ==
    /\ tabs = <<>> /\ current = 0 /\ pending = 0
    /\ _actions = <<>> /\ nbBindings = <<>> /\ keyBindings = <<>> /\ explicit = {}
    /\ emitted = <<>> /\ last = [op |-> "init"]
    /\ unsaved = {} /\ owed = {}
    /\ textwidget = <<>> /\ savedText = <<>>
    /\ files = <<>> /\ _path = None
    /\ content = <<>> /\ _tokens = <<>> /\ tokenizedFrom = <<>>
    /\ \E loaded \in LoadedJsons :
         /\ settings_json = loaded
         /\ _loaded_json = _init(loaded).json
         /\ _var_cache = _init(loaded).vars
         /\ errorvar = _init(loaded).errorvar
         /\ fixedfont = _init(loaded).font
    /\ encoding = getitem(_loaded_json, "encoding")
    /\ _save_hash = mark_saved(<<>>, encoding, None)
    /\ _title = _update_title(textwidget, encoding, _save_hash, _path)
    /\ _status = _update_status(_path)

NextSettings ==
    \/ \E key \in Keys : \E value \in AssignedValues(key) : Assign(key, value)
    \/ \E key \in Keys : \E text \in TypedTexts(key) : Type(key, text)
    \/ \E key \in Keys : Reset(key)
    \/ DoReset
    \/ SaveSettings

SpecSettings == InitSettings /\ [][NextSettings]_vars

\* Whether the step assigned a value that the validator of the key rejects.
Rejected(l) ==
    /\ l.op \in {"setitem", "type"}
    /\ l.key = "font_size" => IsInt(l.value)
    /\ Invalid(l.key, l.value)

\* C26: an assignment of a value that the validator of the key rejects leaves
\* section[key] at the value it had; section[key] = value raises InvalidValue;
\* an assignment by the variable of the field sets the error flag of the
\* field, raises nothing and reaches no later callback (the font keeps its
\* size).
C26_RejectedValueReverts ==
    [][Rejected(last') =>
           /\ getitem(_loaded_json', last'.key) = getitem(_loaded_json, last'.key)
           /\ last'.op = "setitem" => last'.raised = "InvalidValue"
           /\ last'.op = "type" =>
                /\ errorvar'[last'.key]
                /\ last'.raised = "none"
                /\ fixedfont' = fixedfont]_vars

\* The user typed an unknown encoding over ascii: the option is still ascii and
\* the field is flagged.
C26_Witness ==
    /\ last.op = "type" /\ last.key = "encoding" /\ last.value = "utf-99"
    /\ _var_cache["encoding"] = "utf-99"
    /\ errorvar["encoding"]
    /\ getitem(_loaded_json, "encoding") = "ascii"

\* The keys of General that the step may change.
Touched(l) ==
    CASE l.op \in {"setitem", "type", "reset"} -> {l.key}
      [] l.op = "_do_reset" -> Keys
      [] OTHER -> {}

\* Whether every key of the record a, but the keys ks of General, is in the
\* record b with the value it has in a.
Retained(a, b, ks) ==
    \A sec \in DOMAIN a :
        /\ sec \in DOMAIN b
        /\ \A key \in DOMAIN a[sec] :
             \/ sec = Section /\ key \in ks
             \/ key \in DOMAIN b[sec] /\ b[sec][key] = a[sec][key]

\* C27: an assignment, a reset or a rejection changes no key of _loaded_json
\* but the one option it is about (the options, for the Reset button), so
\* every key and section that is not an option stays as it was loaded: the
\* record that save() writes has them all, as does the record in memory.
C27_UnknownKeysRetained ==
    /\ [][Retained(_loaded_json, _loaded_json', Touched(last'))]_vars
    /\ [][last'.op = "save_settings" /\ _loaded_json # <<>> =>
            settings_json' = _loaded_json /\ Retained(settings_json, settings_json', Keys)]_vars
    /\ [](Retained(settings_json, _loaded_json, Keys))

\* After a rejected and an accepted assignment the record was written with
\* the keys that are not options.
C27_Witness ==
    /\ last.op = "save_settings"
    /\ settings_json = "General" :> ("encoding" :> "ascii" @@ "font_size" :> "12"
                                      @@ "theme" :> "dark")
                       @@ "Plugin" :> ("x" :> "1")

-----------------------------------------------------------------------------
\* Actions of kind 'choice': _Action keeps the choices and traces the writes
\* of its variable.

\* Registrations of choice actions, one of them with a key binding (which
\* _add_any_action refuses after it has stored the action), and a command.
ChoiceRequests ==
    {[path |-> <<"View", "/", "Theme">>, kind |-> "choice",
      binding |-> None, var |-> Some("light"),
      tabtypes |-> None, filetype_names |-> None],
     [path |-> <<"View", "/", "Wrap">>, kind |-> "choice",
      binding |-> Some("<Control-w>"), var |-> Some("none"),
      tabtypes |-> Some({"FileTab"}), filetype_names |-> None],
     [path |-> <<"File", "/", "Save">>, kind |-> "command",
      binding |-> Some("<Control-s>"), var |-> None,
      tabtypes |-> Some({"FileTab"}), filetype_names |-> None]}

\* self.choices of the action of the path.
choices(path) ==
    CASE path = <<"View", "/", "Theme">> -> {"light", "dark"}
      [] path = <<"View", "/", "Wrap">> -> {"none", "word"}
      [] OTHER -> {}

\* The values written to the variable of a choice action.
VarValues == {"light", "dark", "word", "neon"}

\* A variant of _var_set_check that warns of nothing.
_var_set_checkSilent(path, value) == [events |-> <<>>, raised |-> "none"]

\* _Action._var_set_check, the write trace of self.var: warnings.warn is
\* called for a value that is not one of the choices; nothing is raised.
_var_set_check(path, value) ==
    [events |-> IF value \notin choices(path)
                THEN <<[name |-> "RuntimeWarning", data |-> value]>>
                ELSE <<>>,
     raised |-> "none"]

\* action.var.set(value) of a choice action.
SetVar(path, value) ==
    LET r == _var_set_check(path, value)
    IN  /\ path \in DOMAIN _actions
        /\ _actions[path].kind = "choice"
        /\ _actions' = [_actions EXCEPT ![path].var = Some(value)]
        /\ emitted' = r.events
        /\ last' = [op |-> "var_set", path |-> path, value |-> value, raised |-> r.raised]
        /\ UNCHANGED <<nbVars, nbBindings, keyBindings, explicit, fileVars, unsaved>>

NextChoice ==
    \/ \E req \in ChoiceRequests : Register(req) /\ UNCHANGED <<owed, diskVars, cfgVars, tokVars, shownVars>>
    \/ \E req \in ChoiceRequests, value \in EnabledValues :
           AssignEnabled(req.path, value) /\ UNCHANGED <<owed, diskVars, cfgVars, tokVars, shownVars>>
    \/ \E req \in ChoiceRequests, value \in VarValues :
           SetVar(req.path, value) /\ UNCHANGED <<owed, diskVars, cfgVars, tokVars, shownVars>>
    \/ \E key \in Bindings : KeyPress(key) /\ UNCHANGED <<owed, diskVars, cfgVars, tokVars, shownVars>>

SpecChoice == InitActions /\ [][NextChoice]_vars

\* C28: a write of a value outside the choices to the variable of a choice
\* action completes (the variable holds the value), warns once of that value,
\* raises nothing, and leaves the registry as it was: the same actions, each
\* with its kind, binding and enabled flag, the same rules and key bindings.
C28_OutOfSetValueWarns ==
    [][last'.op = "var_set" /\ last'.value \notin choices(last'.path) =>
           /\ _actions'[last'.path].var = Some(last'.value)
           /\ emitted' = <<[name |-> "RuntimeWarning", data |-> last'.value]>>
           /\ last'.raised = "none"
           /\ DOMAIN _actions' = DOMAIN _actions
           /\ \A p \in DOMAIN _actions :
                [_actions'[p] EXCEPT !.var = _actions[p].var] = _actions[p]
           /\ UNCHANGED <<nbVars, nbBindings, keyBindings, explicit>>]_vars

\* The variable of a disabled choice action holds a value that is none of its
\* choices, next to another action.
C28_Witness ==
    /\ last.op = "var_set" /\ last.path = <<"View", "/", "Theme">> /\ last.value = "neon"
    /\ _actions[last.path].var = Some("neon")
    /\ ~_actions[last.path].enabled
    /\ Cardinality(DOMAIN _actions) > 1
    /\ emitted # <<>>

-----------------------------------------------------------------------------
\* Edit/Tokenize and Edit/Statistics (_run.py) and the tokens of a FileTab.

\* The characters of the texts tokenized: letters, a space, a newline.
isalpha(ch) == ch \in {"a", "b", "B"}
lower(ch) == IF ch = "B" THEN "b" ELSE ch

\* The texts the user leaves in a text widget.
TokTexts == {<<>>, <<"a">>, <<"B", "\n", "a", " ">>}

\* content.split('\n'), with the line being read in cur.
RECURSIVE split(_, _)
split(s, cur) ==
    IF s = <<>> THEN <<cur>>
    ELSE IF Head(s) = "\n" THEN <<cur>> \o split(Tail(s), <<>>)
    ELSE split(Tail(s), Append(cur, Head(s)))

\* The scan of one line of tokenize_file: the runs of letters, in lower case.
RECURSIVE scan(_, _, _)
scan(line, word, words) ==
    IF line = <<>> THEN (IF word # <<>> THEN Append(words, word) ELSE words)
    ELSE IF isalpha(Head(line)) THEN scan(Tail(line), Append(word, lower(Head(line))), words)
    ELSE scan(Tail(line), <<>>, IF word # <<>> THEN Append(words, word) ELSE words)

RECURSIVE scan_lines(_, _)
scan_lines(lines, words) ==
    IF lines = <<>> THEN words
    ELSE scan_lines(Tail(lines), scan(Head(lines), <<>>, words))

\* The words tokenize_file finds in a content.
tokenize(text) == scan_lines(split(text, <<>>), <<>>)

\* new_content of tokenize_file: every word followed by a newline.
RECURSIVE new_content(_)
new_content(words) ==
    IF words = <<>> THEN <<>>
    ELSE Head(words) \o <<"\n">> \o new_content(Tail(words))

\* The text widgets and the tokens of the tabs, as one record.
Tk == [content |-> content, tokens |-> _tokens, from |-> tokenizedFrom]

ContentOf(tk, id) == IF id \in DOMAIN tk.content THEN tk.content[id] ELSE <<>>

\* FileTab.tokens, the getter: an empty list until the setter stored one.
tokens(tk, id) == IF id \in DOMAIN tk.tokens THEN tk.tokens[id] ELSE <<>>

\* FileTab.tokens, the setter: an empty list is not stored.  from is the
\* content the list was computed from.
tokens_setter(tk, id, new_tokens, from) ==
    IF Len(new_tokens) > 0
    THEN [tk EXCEPT !.tokens = (id :> new_tokens) @@ @, !.from = (id :> from) @@ @]
    ELSE tk

\* tokenize_file(show=True) after the scan: r is what add_tab of the new tab
\* did; the new tab gets the words as its text and as its tokens, and the
\* tokenized tab gets them as its tokens.
tokenize_shown(r, tk, id, new_id, words, text) ==
    [nb |-> r.nb, acts |-> r.acts, events |-> r.events,
     tk |-> tokens_setter(
                tokens_setter([tk EXCEPT !.content = (new_id :> new_content(words)) @@ @],
                              new_id, words, text),
                id, words, text),
     raised |-> "none"]

\* tokenize_file(show) of the tab with identity id, whose text is text.
tokenize_tab(acts, closures, nb, tk, show, id, text) ==
    IF show
    THEN tokenize_shown(add_tab(acts, closures, nb,
                                [id |-> FreshId(nb.tabs), type |-> "FileTab", path |-> None],
                                TRUE),
                        tk, id, FreshId(nb.tabs), tokenize(text), text)
    ELSE [nb |-> nb, acts |-> acts, events |-> <<>>,
          tk |-> tokens_setter(tk, id, tokenize(text), text), raised |-> "none"]

\* tokenize_file(show).  Without a selected tab, select() returns None and
\* tab.textwidget raises AttributeError.
tokenize_file(acts, closures, nb, tk, show) ==
    IF nb.current = 0
    THEN [nb |-> nb, acts |-> acts, events |-> <<>>, tk |-> tk, raised |-> "AttributeError"]
    ELSE tokenize_tab(acts, closures, nb, tk, show, nb.tabs[nb.current].id,
                      ContentOf(tk, nb.tabs[nb.current].id))

\* The words get_statistics counts: the tokens of the tab.
statistics_of(tk, id, tokenized) ==
    [tk |-> tk, words |-> tokens(tk, id), tokenized |-> tokenized, raised |-> "none"]

\* A variant of get_statistics that tokenizes the content at every request.
get_statisticsFresh(acts, closures, nb, tk) ==
    IF nb.current = 0
    THEN [tk |-> tk, words |-> <<>>, tokenized |-> FALSE, raised |-> "AttributeError"]
    ELSE statistics_of(tokenize_file(acts, closures, nb, tk, FALSE).tk,
                       nb.tabs[nb.current].id, TRUE)

\* get_statistics, up to the words it counts: the tokens of the selected tab,
\* after a tokenize_file(show=False) when the tab has none.
get_statistics(acts, closures, nb, tk) ==
    IF nb.current = 0
    THEN [tk |-> tk, words |-> <<>>, tokenized |-> FALSE, raised |-> "AttributeError"]
    ELSE IF Len(tokens(tk, nb.tabs[nb.current].id)) = 0
    THEN statistics_of(tokenize_file(acts, closures, nb, tk, FALSE).tk,
                       nb.tabs[nb.current].id, TRUE)
    ELSE statistics_of(tk, nb.tabs[nb.current].id, FALSE)

SetTk(tk) ==
    /\ content' = tk.content
    /\ _tokens' = tk.tokens
    /\ tokenizedFrom' = tk.from

\* The text, the tokens and the save state of a destroyed tab go with it.
Without(f, id) == [x \in DOMAIN f \ {id} |-> f[x]]

\* The user leaves the text t in the text widget of a tab that was never
\* saved: the tab is unsaved unless the text is empty.
EditText(id, t) ==
    /\ t # ContentOf(Tk, id)
    /\ content' = (id :> t) @@ content
    /\ unsaved' = IF t = <<>> THEN unsaved \ {id} ELSE unsaved \cup {id}
    /\ emitted' = <<>>
    /\ last' = [op |-> "edit", tab |-> id]
    /\ UNCHANGED <<nbVars, regVars, fileVars, _tokens, tokenizedFrom>>

\* The state after tokenize_file returned r.
Tokenized(r) ==
    /\ Len(r.nb.tabs) <= MaxTabs
    /\ SetNb(r.nb)
    /\ SetTk(r.tk)
    /\ _actions' = r.acts
    /\ unsaved' = {id \in unsaved \cup DOMAIN r.tk.content : ContentOf(r.tk, id) # <<>>}
    /\ emitted' = r.events
    /\ last' = [op |-> "tokenize_file", raised |-> r.raised]
    /\ UNCHANGED <<nbBindings, keyBindings, explicit, fileVars>>

\* Edit/Tokenize
TokenizeFile == Tokenized(tokenize_file(_actions, nbBindings, Nb, Tk, TRUE))

\* The state after get_statistics counted the words of r.
Counted(r) ==
    /\ SetTk(r.tk)
    /\ emitted' = <<>>
    /\ last' = [op |-> "get_statistics", words |-> r.words,
                tokenized |-> r.tokenized, raised |-> r.raised]
    /\ UNCHANGED <<nbVars, regVars, fileVars, unsaved>>

\* Edit/Statistics
GetStatistics == Counted(get_statistics(_actions, nbBindings, Nb, Tk))

\* File/Close of a tab that can be closed.
CloseFileTab(id) ==
    /\ CloseTab(id)
    /\ SetTk([content |-> Without(content, id), tokens |-> Without(_tokens, id),
              from |-> Without(tokenizedFrom, id)])

NextTokens ==
    \/ Running /\ pending = 0 /\ NewFile /\ UNCHANGED <<owed, diskVars, cfgVars, tokVars, shownVars>>
    \/ Running /\ pending = 0 /\ \E i \in DOMAIN tabs, t \in TokTexts :
           EditText(tabs[i].id, t) /\ UNCHANGED <<owed, diskVars, cfgVars, shownVars>>
    \/ Running /\ pending = 0 /\ TokenizeFile /\ UNCHANGED <<owed, diskVars, cfgVars, shownVars>>
    \/ Running /\ pending = 0 /\ GetStatistics /\ UNCHANGED <<owed, diskVars, cfgVars, shownVars>>
    \/ Running /\ pending = 0 /\ \E i \in DOMAIN tabs :
           CloseFileTab(tabs[i].id) /\ UNCHANGED <<owed, diskVars, cfgVars, shownVars>>
    \/ Running /\ pending = 0 /\ \E i \in DOMAIN tabs :
           Select(tabs[i].id) /\ UNCHANGED <<owed, diskVars, cfgVars, tokVars, shownVars>>
    \/ Running /\ DispatchTabChanged /\ UNCHANGED <<owed, diskVars, cfgVars, tokVars, shownVars>>

SpecTokens == Init /\ [][NextTokens]_vars

\* The identity of the selected tab.
Selected == tabs[current].id

\* C29: an edit leaves the tokens of every tab as they are; the tokens a tab
\* holds are at all times those of the content it had when they were
\* computed; and a statistics request for a tab that holds tokens counts
\* those tokens, without tokenizing and whatever the content has become.
C29_TokensOutliveEdits ==
    /\ [][last'.op = "edit" => _tokens' = _tokens /\ tokenizedFrom' = tokenizedFrom]_vars
    /\ [](\A id \in DOMAIN _tokens :
            /\ _tokens[id] # <<>>
            /\ id \in DOMAIN tokenizedFrom
            /\ _tokens[id] = tokenize(tokenizedFrom[id]))
    /\ [][last'.op = "get_statistics" /\ last'.raised = "none"
          /\ tokens(Tk, Selected) # <<>> =>
              /\ last'.words = tokens(Tk, Selected)
              /\ ~last'.tokenized
              /\ _tokens' = _tokens]_vars

\* Statistics were taken of a tab whose tokens are two words of an earlier
\* content, while the text widget holds one other word.
C29_Witness ==
    /\ last.op = "get_statistics" /\ last.raised = "none"
    /\ last.words = <<<<"b">>, <<"a">>>>
    /\ ContentOf(Tk, Selected) = <<"a">>
    /\ tokenize(ContentOf(Tk, Selected)) # last.words

-----------------------------------------------------------------------------
\* Closing with unsaved changes: what can_be_closed() answers.

\* C31: a close through the close button or File/Close in which the save
\* after the answer yes failed (the error dialog was shown) has no
\* can_be_closed() that returned true, and closes no tab.
C31_FailedSaveKeepsTab ==
    [][last'.op \in {"click_close", "close_selected_tab"} /\ ErrorDialogs(emitted') > 0 =>
           /\ \A k \in DOMAIN last'.checked : ~Truthy(last'.checked[k].ret)
           /\ last'.closed = <<>>
           /\ tabs' = tabs]_vars

\* What of C31 the code does: the same for a tab that had a path before the
\* close was asked for.
FailedSaveKeepsTabWithPath ==
    [][(/\ last'.op \in {"click_close", "close_selected_tab"}
        /\ ErrorDialogs(emitted') > 0
        /\ \E i \in DOMAIN tabs : tabs[i].id = last'.tab /\ tabs[i].path # None) =>
           /\ \A k \in DOMAIN last'.checked : ~Truthy(last'.checked[k].ret)
           /\ last'.closed = <<>>
           /\ Ids(tabs') = Ids(tabs)
           /\ last'.tab \in unsaved']_vars

\* The save of a file with a path failed after the answer yes, and the tab is
\* still open and unsaved.
FailedSaveKeepsTabWithPath_Reached ==
    /\ last.op = "click_close" /\ ErrorDialogs(emitted) = 1
    /\ last.closed = <<>>
    /\ \E i \in DOMAIN tabs : tabs[i].id = last.tab /\ tabs[i].path # None
    /\ last.tab \in unsaved

\* The state after tab.can_be_closed() of the tab at place i returned r.
Asked(i, env, r) ==
    /\ tabs' = [tabs EXCEPT ![i] = r.tab]
    /\ unsaved' = SetUnsaved(unsaved, r.tab.id, r.unsaved)
    /\ emitted' = r.events
    /\ last' = [op |-> "can_be_closed", tab |-> tabs[i].id, env |-> env, ret |-> r.ret]
    /\ UNCHANGED <<current, pending, regVars, fileVars>>

\* tab.can_be_closed() of the tab at place i, as quit() and the close
\* callbacks call it.
CanBeClosed(i, env) == Asked(i, env, can_be_closed(tabs[i], tabs[i].id \in unsaved, env))

NextAsk ==
    \/ pending = 0 /\ \E desc \in ClosableTabs : AddTab(desc, TRUE) /\ UNCHANGED <<owed, diskVars, cfgVars, tokVars, shownVars>>
    \/ pending = 0 /\ \E i \in DOMAIN tabs : CloseTab(tabs[i].id) /\ UNCHANGED <<owed, diskVars, cfgVars, tokVars, shownVars>>
    \/ pending = 0 /\ \E i \in DOMAIN tabs, dirty \in BOOLEAN :
           tabs[i].type = "FileTab" /\ EditTab(tabs[i].id, dirty) /\ UNCHANGED <<owed, diskVars, cfgVars, tokVars, shownVars>>
    \/ pending = 0 /\ \E i \in DOMAIN tabs : \E env \in EnvsFor(tabs[i], unsaved) :
           CanBeClosed(i, env) /\ UNCHANGED <<owed, diskVars, cfgVars, tokVars, shownVars>>
    \/ DispatchTabChanged /\ UNCHANGED <<owed, diskVars, cfgVars, tokVars, shownVars>>

SpecAsk == Init /\ [][NextAsk]_vars

\* The prompt of can_be_closed() for a tab.
Prompt(id) == <<[name |-> "askyesnocancel", data |-> id]>>

\* C32: can_be_closed() of a generic Tab and of a saved FileTab returns True
\* and shows nothing.  For an unsaved FileTab it prompts; on cancel it returns
\* False and on no it returns True, both without a save and leaving the tab
\* as it was; on yes it runs save() and returns what save() returned.
C32_CanBeClosedFollowsAnswer ==
    [][last'.op = "can_be_closed" =>
         LET i == IndexOf(tabs, last'.tab)
             s == save(tabs[i], last'.env)
         IN  IF tabs[i].type = "Tab" \/ tabs[i].id \notin unsaved
             THEN last'.ret = "True" /\ emitted' = <<>> /\ tabs' = tabs /\ unsaved' = unsaved
             ELSE CASE last'.env.answer = "cancel" ->
                         /\ last'.ret = "False" /\ emitted' = Prompt(tabs[i].id)
                         /\ tabs' = tabs /\ unsaved' = unsaved
                    [] last'.env.answer = "no" ->
                         /\ last'.ret = "True" /\ emitted' = Prompt(tabs[i].id)
                         /\ tabs' = tabs /\ unsaved' = unsaved
                    [] last'.env.answer = "yes" ->
                         /\ last'.ret = s.ret
                         /\ emitted' = Prompt(tabs[i].id) \o s.events
                         /\ tabs' = [tabs EXCEPT ![i] = s.tab]
                         /\ (tabs[i].id \in unsaved') = ~s.marked]_vars

\* An unsaved file with a path was asked, the answer was yes and the save
\* failed: can_be_closed() returned the None of save().
C32_Witness ==
    /\ last.op = "can_be_closed" /\ last.env.answer = "yes" /\ last.ret = "None"
    /\ ErrorDialogs(emitted) = 1
    /\ last.tab \in unsaved

\* A generic Tab next to an unsaved file was asked and agreed.
C32_GenericTab ==
    /\ last.op = "can_be_closed" /\ last.ret = "True" /\ emitted = <<>>
    /\ \E i \in DOMAIN tabs : tabs[i].id = last.tab /\ tabs[i].type = "Tab"
    /\ unsaved # {}

\* The places of the quit notification among the notifications of a step.
QuitEvents(events) == {k \in DOMAIN events : events[k].name = "<<SimpleEditorQuit>>"}

\* C33: quit() asks can_be_closed() of the tabs in display order, every one
\* asked before the last agreed.  When the last one asked refuses, every tab
\* stays, no quit notification is emitted and the window stays; otherwise
\* every tab was asked, the quit notification is emitted once, after the
\* checks and while every tab is still open, then every tab is closed and
\* the window destroyed.
C33_QuitAllOrNothing ==
    [][last'.op = "quit" =>
         LET c == last'.checked
             n == Len(c)
         IN  /\ n <= Len(tabs)
             /\ \A k \in 1..n : c[k].tab = tabs[k].id
             /\ \A k \in 1..n : k < n => Truthy(c[k].ret)
             /\ IF n > 0 /\ ~Truthy(c[n].ret)
                THEN /\ [k \in DOMAIN tabs' |-> tabs'[k].id] = [k \in DOMAIN tabs |-> tabs[k].id]
                     /\ current' = current
                     /\ QuitEvents(emitted') = {}
                     /\ ~last'.destroyed /\ last'.closed = <<>>
                ELSE /\ n = Len(tabs)
                     /\ QuitEvents(emitted') = {Len(emitted')}
                     /\ emitted'[Len(emitted')].seen.tabs = [k \in DOMAIN tabs |-> tabs[k].id]
                     /\ last'.closed = [k \in DOMAIN tabs |-> tabs[k].id]
                     /\ tabs' = <<>>
                     /\ last'.destroyed]_vars

\* quit() was refused by the second of two tabs after the first one, an
\* unsaved file, was saved for it: both tabs are open.
C33_Witness ==
    /\ last.op = "quit" /\ ~last.destroyed
    /\ Len(last.checked) = 2 /\ Len(tabs) = 2
    /\ \E k \in DOMAIN emitted : emitted[k].name = "<<Save>>"
    /\ tabs[1].id \notin unsaved /\ tabs[2].id \in unsaved

-----------------------------------------------------------------------------
\* Registration calls that raise.

\* The places of the <<NewAction>> notification of a path among the
\* notifications of a step.
NewActionEvents(events, path) ==
    {k \in DOMAIN events : events[k].name = "<<NewAction>>" /\ events[k].data = path}

\* C34: a registration call that raises adds nothing: the registry is as it
\* was before the call (a path that was not registered is not registered),
\* and no <<NewAction>> was emitted for the path.
C34_FailedRegistrationAddsNothing ==
    [][last'.op = "register" /\ last'.raised # "none" =>
           /\ _actions' = _actions
           /\ last'.req.path \notin DOMAIN _actions => last'.req.path \notin DOMAIN _actions'
           /\ NewActionEvents(emitted', last'.req.path) = {}]_vars

\* What of C34 the code does: the same for the calls refused by the checks
\* of the arguments (ValueError, TypeError, RuntimeError).
RefusedRegistrationAddsNothing ==
    [][last'.op = "register" /\ last'.raised \in {"ValueError", "TypeError", "RuntimeError"} =>
           /\ _actions' = _actions
           /\ nbBindings' = nbBindings /\ keyBindings' = keyBindings
           /\ emitted' = <<>>]_vars

\* A registration with both rules was refused while other actions exist.
RefusedRegistrationAddsNothing_Reached ==
    /\ last.op = "register" /\ last.raised = "TypeError"
    /\ last.req.path \notin DOMAIN _actions
    /\ _actions # <<>>

-----------------------------------------------------------------------------
\* The title of a FileTab.

\* Whether a title carries the unsaved marker: the name between asterisks.
Marked(title) == Len(title) = 3 /\ title[1] = "*" /\ title[3] = "*"

\* C35: in every state the title of the FileTab carries the unsaved marker
\* if and only if is_saved() is false.
C35_TitleMarksUnsaved == Marked(_title) <=> ~is_saved(textwidget, encoding, _save_hash)

\* What of C35 the code does: after a save that called mark_saved() the title
\* is the name of the file without the marker, and is_saved() is true.
TitlePlainAfterSave ==
    [][last'.op \in {"save", "save_as"} /\ _save_hash' = _get_hash(textwidget', encoding')
       /\ ~is_saved(textwidget, encoding, _save_hash) =>
           /\ _title' = <<basename(_path'[1])>>
           /\ ~Marked(_title')]_vars

\* An edited text was saved under the name given in the dialog: the title is
\* the name of the file.
TitlePlainAfterSave_Reached ==
    /\ last.op = "save_as" /\ last.ret = "True" /\ last.raised = "ok"
    /\ textwidget # <<>>
    /\ _title = <<"a.txt">>
    /\ is_saved(textwidget, encoding, _save_hash)

-----------------------------------------------------------------------------
\* The saved state and the configured encoding.

\* C36: while the text is the text of the last mark_saved(), is_saved()
\* returns true, whatever else changed in between.
C36_UnchangedTextIsSaved ==
    (last.op = "is_saved" /\ textwidget = savedText) => last.ret

(***************************************************************************)
(* SpecNew: the one FileTab is constructed again and again, by             *)
(* FileTab(manager, content, path) and by FileTab.open_file, between edits,*)
(* changes of the encoding and writes of the file by other programs.       *)
(***************************************************************************)
\* The contents a FileTab is constructed with.
NewContents == {<<>>, <<"?">>, <<"e-acute">>, <<"?", "\n">>}

\* The bytes another program leaves in the file.
DiskContents == {<<>>, <<63>>, <<195, 169>>, <<63, 10>>}

\* Whether bytes.decode(encoding) works: ascii has no byte above 127.
decodes(bytes, enc) == enc = "UTF-8" \/ \A i \in DOMAIN bytes : bytes[i] < 128

\* file.read() of a file opened with the encoding, for bytes that decode.
RECURSIVE decode(_, _)
decode(bytes, enc) ==
    IF bytes = <<>> THEN <<>>
    ELSE IF Head(bytes) = 195
         THEN <<"e-acute">> \o decode(SubSeq(bytes, 3, Len(bytes)), enc)
         ELSE <<IF Head(bytes) = 10 THEN "\n" ELSE "?">> \o decode(Tail(bytes), enc)

\* A variant of the constructor that calls mark_saved() before the content
\* is inserted.
FileTabMarksFirst(text, enc, path) ==
    [textwidget |-> text, _path |-> path,
     _save_hash |-> mark_saved(<<>>, enc, None),
     _title |-> _update_title(text, enc, mark_saved(<<>>, enc, None), path),
     _status |-> _update_status(path)]

\* FileTab.__init__: the content is inserted, then mark_saved(),
\* _update_title() and _update_status().
FileTab(text, enc, path) ==
    [textwidget |-> text, _path |-> path,
     _save_hash |-> mark_saved(text, enc, None),
     _title |-> _update_title(text, enc, mark_saved(text, enc, None), path),
     _status |-> _update_status(path)]

\* The tab of the file variables, as can_be_closed() takes it.
TheTab(path) == [type |-> "FileTab", id |-> 1, path |-> path]

\* The file variables are those of the tab just constructed.
Constructed(op, t) ==
    /\ textwidget' = t.textwidget
    /\ _save_hash' = t._save_hash
    /\ savedText' = t.textwidget
    /\ _path' = t._path
    /\ _title' = t._title
    /\ _status' = t._status
    /\ emitted' = <<>>
    /\ last' = [op |-> op, raised |-> "none"]
    /\ UNCHANGED <<nbVars, regVars, encoding, unsaved, files>>

\* FileTab(manager, content, path)
NewFileTab(c, path) == Constructed("FileTab", FileTab(c, encoding, path))

\* FileTab.open_file(manager, path): open() and read() raise for a missing
\* file and for bytes the encoding cannot decode, and no tab is made.
OpenFile(p) ==
    IF ~exists(files, FileName(p))
    THEN /\ last' = [op |-> "open_file", raised |-> "OSError"]
         /\ emitted' = <<>>
         /\ UNCHANGED <<nbVars, regVars, fileVars, diskVars, shownVars, unsaved>>
    ELSE IF ~decodes(files[FileName(p)], encoding)
    THEN /\ last' = [op |-> "open_file", raised |-> "UnicodeDecodeError"]
         /\ emitted' = <<>>
         /\ UNCHANGED <<nbVars, regVars, fileVars, diskVars, shownVars, unsaved>>
    ELSE Constructed("open_file",
                     FileTab(decode(files[FileName(p)], encoding), encoding, Some(p)))

\* Another program writes the file.
WriteOutside(bytes) ==
    /\ files' = WriteFile(files, FileName("a.txt"), bytes)
    /\ emitted' = <<>>
    /\ last' = [op |-> "write_outside"]
    /\ UNCHANGED <<nbVars, regVars, fileVars, _path, shownVars, unsaved>>

\* tab.can_be_closed(), the user answering no or cancel when asked.  fresh
\* says that the call comes right after the construction of the tab.
Answered(env, fresh, r) ==
    /\ emitted' = r.events
    /\ last' = [op |-> "can_be_closed", ret |-> r.ret, fresh |-> fresh]
    /\ UNCHANGED <<nbVars, regVars, fileVars, diskVars, shownVars, unsaved>>

AskTab(env) ==
    /\ env.answer \in {"cancel", "no"}
    /\ Answered(env, last.op \in {"FileTab", "open_file"} /\ last.raised = "none",
                can_be_closed(TheTab(_path),
                              ~is_saved(textwidget, encoding, _save_hash), env))

NextNew ==
    \/ \E c \in NewContents, p \in {None} \cup {Some(q) : q \in FilePaths} :
          NewFileTab(c, p) /\ UNCHANGED <<owed, cfgVars, tokVars>>
    \/ \E p \in FilePaths : OpenFile(p) /\ UNCHANGED <<owed, cfgVars, tokVars>>
    \/ \E bytes \in DiskContents :
          WriteOutside(bytes) /\ UNCHANGED <<owed, cfgVars, tokVars>>
    \/ \E env \in Envs : AskTab(env) /\ UNCHANGED <<owed, cfgVars, tokVars>>
    \/ \E ch \in Chars, pos \in 1..(Len(textwidget) + 1) :
          Insert(ch, pos) /\ UNCHANGED <<owed, diskVars, cfgVars, tokVars, shownVars>>
    \/ IsSaved /\ UNCHANGED <<owed, diskVars, cfgVars, tokVars, shownVars>>
    \/ \E enc \in Encodings :
          SetEncoding(enc) /\ UNCHANGED <<owed, diskVars, cfgVars, tokVars, shownVars>>

SpecNew == Init /\ [][NextNew]_vars

\* C37: right after a FileTab is constructed, with any content and path or
\* from a file, is_saved() is true and can_be_closed() returns true without
\* asking anything.
C37_NewTabIsSaved ==
    /\ [][(last'.op \in {"FileTab", "open_file"} /\ last'.raised = "none")
            => /\ is_saved(textwidget', encoding', _save_hash')
               /\ \A env \in Envs :
                     /\ can_be_closed(TheTab(_path'), ~is_saved(textwidget', encoding', _save_hash'), env).ret = "True"
                     /\ can_be_closed(TheTab(_path'), ~is_saved(textwidget', encoding', _save_hash'), env).events = <<>>]_vars
    /\ [][(last'.op = "can_be_closed" /\ last'.fresh)
            => (last'.ret = "True" /\ emitted' = <<>>)]_vars
    /\ [][(last.op \in {"FileTab", "open_file"} /\ last.raised = "none"
             /\ last'.op = "is_saved")
            => last'.ret]_vars

\* A file with a non-ASCII character was opened, and can_be_closed() was
\* called on the new tab.
C37_Witness ==
    /\ last.op = "can_be_closed" /\ last.fresh /\ last.ret = "True"
    /\ textwidget = <<"e-acute">>
    /\ _path # None
    /\ files # <<>>

\* The prompt of can_be_closed() does come up for an edited tab.
C37_Prompted ==
    /\ last.op = "can_be_closed" /\ ~last.fresh /\ last.ret = "False"
    /\ emitted # <<>>

(***************************************************************************)
(* SpecPath: the path of the one FileTab is assigned again and again,      *)
(* between edits and mark_saved() calls.                                   *)
(***************************************************************************)
\* The values assigned to tab.path: no path, two spellings of one file, and
\* a name that differs from one of them in case only.
AssignedPaths == {None, Some("a.txt"), Some("./a.txt"), Some("./A.TXT")}

\* The file variables after the setter ran: the handlers bound to
\* <<PathChanged>>, _update_title and _update_status, run when it is generated.
PathAssigned(new_path, r) ==
    /\ _path' = r.tab.path
    /\ emitted' = r.events
    /\ _title' = IF PathChanged(r.events)
                 THEN _update_title(textwidget, encoding, _save_hash, r.tab.path)
                 ELSE _title
    /\ _status' = IF PathChanged(r.events) THEN _update_status(r.tab.path) ELSE _status
    /\ last' = [op |-> "set_path", new_path |-> new_path]
    /\ UNCHANGED <<nbVars, regVars, fileVars, files, unsaved>>

\* tab.path = new_path
AssignPath(new_path) == PathAssigned(new_path, path_setter(TheTab(_path), new_path))

NextPath ==
    \/ \E p \in AssignedPaths : AssignPath(p) /\ UNCHANGED <<owed, cfgVars, tokVars>>
    \/ \E ch \in Chars, pos \in 1..(Len(textwidget) + 1) :
          Insert(ch, pos) /\ UNCHANGED <<owed, diskVars, cfgVars, tokVars, shownVars>>
    \/ \E pos \in DOMAIN textwidget :
          Delete(pos) /\ UNCHANGED <<owed, diskVars, cfgVars, tokVars, shownVars>>
    \/ MarkSaved /\ UNCHANGED <<owed, diskVars, cfgVars, tokVars>>

SpecPath == Init /\ [][NextPath]_vars

\* Whether an assignment changes the path: to or from no path, or between
\* two paths whose case-normalised forms differ.
ItChanges(old, new) ==
    IF old = None \/ new = None THEN old # new
    ELSE normcase(old[1]) # normcase(new[1])

\* C38: an assignment of the path stores the assigned value, generates one
\* <<PathChanged>> when the path changes (to or from no path, or to a path
\* with another case-normalised form) and none otherwise, and each
\* notification leaves the title and the status those of the new path.
C38_PathChangedIffChanges ==
    [][last'.op = "set_path"
         => /\ _path' = last'.new_path
            /\ ItChanges(_path, last'.new_path)
                  => /\ emitted' = <<[name |-> "<<PathChanged>>", data |-> 1]>>
                     /\ _title' = _update_title(textwidget', encoding', _save_hash', _path')
                     /\ _status' = _update_status(_path')
            /\ ~ItChanges(_path, last'.new_path) => emitted' = <<>>]_vars

\* A tab with a path and an edited text got another path: the status names
\* the new path, and the title is the marked name of the new file.
C38_Witness ==
    /\ last.op = "set_path" /\ last.new_path = Some("./A.TXT")
    /\ emitted # <<>>
    /\ _status.prefix = <<"File", "./A.TXT">>
    /\ _title = <<"*", "A.TXT", "*">>

\* The path was assigned the value it had: nothing was generated.
C38_SamePath ==
    /\ last.op = "set_path" /\ last.new_path = Some("a.txt")
    /\ emitted = <<>>
    /\ _path = Some("a.txt")

(***************************************************************************)
(* SpecChunks: iter_chunks, _get_hash and the writing of save on a FileTab *)
(* constructed with each of a set of contents, under either encoding.      *)
(***************************************************************************)
\* A text of one line more than the default chunk has: ChunkLines empty
\* lines and a last line of one character.
LongText == [i \in 1..(ChunkLines + 1) |-> IF i <= ChunkLines THEN "\n" ELSE "?"]

\* The contents: every text of up to MaxText characters, and the long one.
ChunkTexts == UNION {[1..k -> Chars] : k \in 0..MaxText} \cup {LongText}

InitChunks ==
    /\ tabs = <<>>
    /\ current = 0
    /\ pending = 0
    /\ _actions = <<>>
    /\ nbBindings = <<>>
    /\ keyBindings = <<>>
    /\ explicit = {}
    /\ textwidget \in ChunkTexts
    /\ encoding = "UTF-8"
    /\ _save_hash = mark_saved(textwidget, "UTF-8", None)
    /\ savedText = textwidget
    /\ unsaved = {}
    /\ owed = {}
    /\ files = <<>>
    /\ _path = None
    /\ _loaded_json = <<>> /\ _var_cache = <<>> /\ errorvar = <<>>
    /\ fixedfont = [family |-> "Courier", size |-> 10] /\ settings_json = <<>>
    /\ content = <<>> /\ _tokens = <<>> /\ tokenizedFrom = <<>>
    /\ _title = _update_title(textwidget, encoding, _save_hash, _path)
    /\ _status = _update_status(_path)
    /\ emitted = <<>>
    /\ last = [op |-> "init"]

\* list(tab.iter_chunks(n))
IterChunks(n) ==
    /\ last' = [op |-> "iter_chunks", n |-> n, chunks |-> iter_chunks(textwidget, n, 1)]
    /\ UNCHANGED <<nbVars, regVars, fileVars, unsaved, emitted>>

\* tab._get_hash()
GetHash ==
    /\ last' = [op |-> "_get_hash", ret |-> _get_hash(textwidget, encoding)]
    /\ UNCHANGED <<nbVars, regVars, fileVars, unsaved, emitted>>

\* The body of save's with statement, on a file that takes every write.
WriteBody ==
    /\ last' = [op |-> "write",
                body |-> write_chunks(iter_chunks(textwidget, ChunkLines, 1), encoding, 1)]
    /\ UNCHANGED <<nbVars, regVars, fileVars, unsaved, emitted>>

NextChunks ==
    \/ \E n \in 1..MaxN :
          IterChunks(n) /\ UNCHANGED <<owed, diskVars, cfgVars, tokVars, shownVars>>
    \/ GetHash /\ UNCHANGED <<owed, diskVars, cfgVars, tokVars, shownVars>>
    \/ WriteBody /\ UNCHANGED <<owed, diskVars, cfgVars, tokVars, shownVars>>
    \/ \E enc \in Encodings :
          SetEncoding(enc) /\ UNCHANGED <<owed, diskVars, cfgVars, tokVars, shownVars>>

SpecChunks == InitChunks /\ [][NextChunks]_vars

\* The chunks from the i-th on, one after the other.
RECURSIVE Joined(_, _)
Joined(chunks, i) == IF i > Len(chunks) THEN <<>> ELSE chunks[i] \o Joined(chunks, i + 1)

\* C39: for every content and chunk size, no chunk of iter_chunks is empty
\* and the chunks joined in order are the content, an empty buffer giving no
\* chunk; so the digest is that of the whole content, and so are the bytes
\* save writes.
C39_ChunksCoverContent ==
    /\ last.op = "iter_chunks"
          => /\ \A i \in DOMAIN last.chunks : last.chunks[i] # <<>>
             /\ Joined(last.chunks, 1) = textwidget
             /\ textwidget = <<>> => last.chunks = <<>>
             /\ md5_update(<<>>, last.chunks, encoding, 1) = encode(textwidget, encoding)
    /\ last.op = "_get_hash" => last.ret = hexdigest(encode(textwidget, encoding))
    /\ (last.op = "write" /\ last.body.raised = "ok")
          => last.body.bytes = encode(textwidget, encoding)

\* Three lines, the last one empty, chunked two lines at a time: one chunk
\* and no empty second one.
C39_Witness ==
    /\ last.op = "iter_chunks" /\ last.n = 2
    /\ textwidget = <<"e-acute", "\n", "\n">>
    /\ Len(last.chunks) = 1

\* The long text is digested in two chunks.
C39_TwoChunksDigested ==
    /\ last.op = "_get_hash"
    /\ textwidget = LongText
    /\ Len(iter_chunks(textwidget, ChunkLines, 1)) = 2

====
